---- MODULE Spec2Model ----
(***************************************************************************)
(* Session store and conversation-flow engine of the community marketplace *)
(* bot (src/src/services/user.service.ts: UserSessionService, BotService;  *)
(* src/unnamed/part_003: ShopService).                                     *)
(*                                                                         *)
(* Strings are sequences of one-character strings, so that trim(),         *)
(* toLowerCase(), length and parseInt() are computed, not assumed.         *)
(* Session objects live in a heap and the session Map holds references,    *)
(* as in JavaScript: a caller that holds a session across an await holds   *)
(* the object, not a copy.                                                 *)
(* Every async function is cut at its awaits.  An await of real I/O (the   *)
(* durable store, the outbound transport) is a point where any other task  *)
(* may run; an await of an already settled promise is a microtask, and     *)
(* while a microtask is pending only other microtasks and newly issued     *)
(* calls of the same synchronous segment run (no timer, no I/O completion).*)
(***************************************************************************)
EXTENDS Integers, Sequences, FiniteSets, TLC

VARIABLES
    now,        \* Date.now()
    sessions,   \* UserSessionService.sessions: key -> object id, 0 for none
    heap,       \* object id -> session object
    faults,     \* calls that have failed
    onboarded,  \* keys whose community selection has been persisted
    dbUsers,    \* the users table: phone -> row
    dbShops,    \* the shops table, in insertion order (id = position)
    procs,      \* the callers: position, arguments, locals, result
    last,       \* the step taken last (history, read only by the claims)
    calls       \* calls and inbound events issued so far

vars == <<now, sessions, heap, dbUsers, dbShops, procs, last, calls, faults, onboarded>>

(***************************************************************************)
(* Bounds of the model.                                                    *)
(***************************************************************************)
\* the clock stops advancing here
MaxTime == 3
\* calls (or inbound events) issued in one run
MaxCalls == 4
\* inbound events in one run
MaxTurns == 5
\* calls to the durable store or to the transport that fail in one run
MaxFaults == 1
\* concurrent callers (API calls or inbound events in flight)
NumProcs == 2
\* session objects that can be alive at once (in the Map or held by a caller)
MaxObj == 4

(***************************************************************************)
(* Program constants.                                                      *)
(***************************************************************************)
\* constructor(sessionTimeoutMs = 30 * 60 * 1000): the unit of the model's
\* clock is the timeout, thirty minutes
SessionTimeout == 1
\* assertValidPhoneNumber: cleaned.length < 7 is rejected
MinPhoneLen == 7

(***************************************************************************)
(* Strings.                                                                *)
(***************************************************************************)
Upper == <<"A","B","C","D","E","F","G","H","I","J","K","L","M",
           "N","O","P","Q","R","S","T","U","V","W","X","Y","Z">>
Lower == <<"a","b","c","d","e","f","g","h","i","j","k","l","m",
           "n","o","p","q","r","s","t","u","v","w","x","y","z">>
Digits == <<"0","1","2","3","4","5","6","7","8","9">>

IsSpace(c) == c = " "

RECURSIVE TrimStart(_)
TrimStart(s) ==
    IF Len(s) = 0 THEN s
    ELSE IF IsSpace(Head(s)) THEN TrimStart(Tail(s)) ELSE s

RECURSIVE TrimEnd(_)
TrimEnd(s) ==
    IF Len(s) = 0 THEN s
    ELSE IF IsSpace(s[Len(s)]) THEN TrimEnd(SubSeq(s, 1, Len(s) - 1)) ELSE s

\* String.prototype.trim
Trim(s) == TrimEnd(TrimStart(s))

LowerChar(c) ==
    IF \E i \in 1..Len(Upper) : Upper[i] = c
    THEN Lower[CHOOSE i \in 1..Len(Upper) : Upper[i] = c]
    ELSE c

\* String.prototype.toLowerCase
ToLowerCase(s) == [i \in 1..Len(s) |-> LowerChar(s[i])]

IsDigit(c) == \E i \in 1..Len(Digits) : Digits[i] = c
DigitVal(c) == (CHOOSE i \in 1..Len(Digits) : Digits[i] = c) - 1

RECURSIVE DigitPrefix(_)
DigitPrefix(s) ==
    IF Len(s) = 0 \/ ~IsDigit(Head(s)) THEN <<>>
    ELSE <<Head(s)>> \o DigitPrefix(Tail(s))

RECURSIVE DecValue(_)
DecValue(d) ==
    IF Len(d) = 0 THEN 0
    ELSE 10 * DecValue(SubSeq(d, 1, Len(d) - 1)) + DigitVal(d[Len(d)])

\* parseInt(s): leading white space skipped, an optional sign, then the
\* longest run of digits; NaN when there is none
ParseInt(s) ==
    LET t == TrimStart(s)
        neg == Len(t) > 0 /\ Head(t) = "-"
        u == IF Len(t) > 0 /\ Head(t) \in {"-", "+"} THEN Tail(t) ELSE t
        d == DigitPrefix(u)
    IN  IF Len(d) = 0 THEN [nan |-> TRUE, v |-> 0]
        ELSE [nan |-> FALSE, v |-> IF neg THEN 0 - DecValue(d) ELSE DecValue(d)]

\* a string of n copies of c
Rep(c, n) == [i \in 1..n |-> c]

(***************************************************************************)
(* Address keys.                                                           *)
(***************************************************************************)
KeyA == <<"6","7","0","0","0","0","1">>
KeyB == <<"6","7","0","0","0","0","2">>
\* seven characters, five after trimming
KeyShort == <<" ","1","2","3","4","5"," ">>

ValidKeys == {KeyA, KeyB}
AllKeys == ValidKeys \cup {KeyShort}

\* assertValidPhoneNumber returns normally (TRUE) or throws (FALSE)
assertValidPhoneNumber(phoneNumber) ==
    /\ Len(Trim(phoneNumber)) # 0
    /\ ~(Len(Trim(phoneNumber)) < MinPhoneLen)

(***************************************************************************)
(* Sessions (interface UserSession) and durable user rows (interface User).*)
(* An optional value is the empty sequence when it is missing and a        *)
(* one-element sequence when it is there; a missing string-valued property *)
(* is "absent", an explicit undefined is "undefined", null is "null".      *)
(* UserSession.preferences is {} in every session and is left out.         *)
(***************************************************************************)
\* userData.shopCreation: st is "absent" (no such property), "undefined"
\* (property present, value undefined) or "set" (an object)
NoDraft == [st |-> "absent", name |-> <<>>, description |-> <<>>, category |-> <<>>]
EmptyDraft == [NoDraft EXCEPT !.st = "set"]

\* userData: {}
EmptyUserData ==
    [pendingUserType |-> "absent", community |-> "absent",
     communityDisplayName |-> "absent", shopCreation |-> NoDraft, shopId |-> 0]

\* JSON.stringify drops properties whose value is undefined
ToJson(userData) ==
    [userData EXCEPT !.shopCreation =
        IF userData.shopCreation.st = "undefined" THEN NoDraft
        ELSE userData.shopCreation]

\* getCommunityVoucher
getCommunityVoucher(community) ==
    CASE community = "BAMEKA" -> "MUNKAP"
      [] community = "BATOUFAM" -> "MBIP TSWEFAP"
      [] community = "FONDJOMEKWET" -> "MBAM"
      [] OTHER -> "undefined"

\* createSession as it was before the flow engine: no current flow
NewSessionNoFlow(phoneNumber, t) ==
    [phoneNumber |-> phoneNumber, createdAt |-> t, lastActivity |-> t,
     userType |-> "null", currentFlow |-> "null",
     userData |-> EmptyUserData, community |-> "undefined",
     communityVoucher |-> "undefined", shopId |-> 0]

\* the session createSession builds
NewSession(phoneNumber, t) ==
    [phoneNumber |-> phoneNumber, createdAt |-> t, lastActivity |-> t,
     userType |-> "null", currentFlow |-> "main_menu",
     userData |-> EmptyUserData, community |-> "undefined",
     communityVoucher |-> "undefined", shopId |-> 0]

\* createSessionFromUser
createSessionFromUser(phone, dbUser, t) ==
    [phoneNumber |-> phone, createdAt |-> t, lastActivity |-> t,
     userType |-> dbUser.user_type,
     currentFlow |-> IF dbUser.current_flow = "null" THEN "main_menu"
                     ELSE dbUser.current_flow,
     userData |-> dbUser.user_data,
     community |-> IF dbUser.community = "null" THEN "undefined"
                   ELSE dbUser.community,
     communityVoucher |-> getCommunityVoucher(dbUser.community),
     shopId |-> dbUser.shop_id]

\* Partial<UserSession>: every property missing
NoUpd ==
    [phoneNumber |-> <<>>, createdAt |-> <<>>, lastActivity |-> <<>>,
     userType |-> <<>>, currentFlow |-> <<>>, userData |-> <<>>,
     community |-> <<>>, communityVoucher |-> <<>>]

\* the destructuring without createdAt
SafeUpdatesKeepCreatedAt(updates) ==
    [updates EXCEPT !.phoneNumber = <<>>]

\* const { phoneNumber: _, createdAt: __, ...safeUpdates } = updates
SafeUpdates(updates) ==
    [updates EXCEPT !.phoneNumber = <<>>, !.createdAt = <<>>]

\* Object.assign(session, u)
ObjectAssign(session, u) ==
    [f \in DOMAIN session |->
        IF f \in DOMAIN u /\ Len(u[f]) > 0 THEN u[f][1] ELSE session[f]]

\* the expiry test with >= for >
ExpiredAtTimeout(session, t) == t - session.lastActivity >= SessionTimeout

\* now - session.lastActivity > this.sessionTimeout
Expired(session, t) == t - session.lastActivity > SessionTimeout

(***************************************************************************)
(* Heap of session objects.  sessions[k] is an object id, 0 for no entry.  *)
(***************************************************************************)
ObjIds == 1..MaxObj
Procs == 1..NumProcs

NoRes == [kind |-> "none", ref |-> 0, val |-> <<>>, n |-> 0, refs |-> {}]

ProcRefs(pr) == {pr.ref, pr.res.ref} \cup pr.res.refs \cup pr.hexp

Refs(S, P) ==
    ({S[k] : k \in DOMAIN S} \cup UNION {ProcRefs(P[p]) : p \in DOMAIN P}) \ {0}

\* objects nothing refers to any more are dropped
Gc(H, S, P) == [i \in (DOMAIN H \cap Refs(S, P)) |-> H[i]]

CanAlloc == \E i \in ObjIds : i \notin DOMAIN heap
NewId == CHOOSE i \in ObjIds : i \notin DOMAIN heap /\ \A j \in ObjIds : j < i => j \in DOMAIN heap

Put(H, i, v) == [j \in DOMAIN H \cup {i} |-> IF j = i THEN v ELSE H[j]]

(***************************************************************************)
(* Callers.  pc is the await a caller is suspended at.  The fields h... and *)
(* prev are history: what the call found when it was issued and what it    *)
(* did, written for the claims and never read by the program.              *)
(***************************************************************************)
\* the step being taken: had says whether the key had an entry before it, t
\* is the clock reading a sweep works with
Step(op, key) ==
    [op |-> op, key |-> key, t |-> 0,
     had |-> key \in DOMAIN sessions /\ sessions[key] # 0]

\* the locals of an inbound event's handlers: the community chosen, the role
\* (userType), voucherBalance, existingUser, the shop a query returned, the
\* answer of isShopNameTaken and its arguments, shopData, newShop.id, the
\* error caught
NoLoc ==
    [comm |-> "none", userType |-> "null", vb |-> 0, user |-> <<>>, shop |-> <<>>,
     nameTaken |-> FALSE, qname |-> <<>>, qcomm |-> "none", sd |-> <<>>,
     newShop |-> 0, exc |-> "none", thrown |-> FALSE]

IdleProc ==
    [pc |-> "idle", op |-> "none", key |-> KeyA, upd |-> NoUpd, ref |-> 0,
     snap |-> <<>>, now0 |-> 0, cleaned |-> 0, res |-> NoRes, ticks |-> 0,
     prev |-> [op |-> "none", key |-> KeyA, t |-> 0, had |-> FALSE],
     hexp |-> {}, hlive |-> FALSE, hkexp |-> FALSE, hnexp |-> 0, hval |-> <<>>,
     hsync |-> FALSE, hrestore |-> "none", hpeer |-> 0, hothers |-> {},
     kind |-> "none", raw |-> <<>>, msg |-> <<>>, q |-> <<>>, loc |-> NoLoc, sent |-> <<>>,
     tflow |-> "none", tsess |-> <<>>, honb |-> FALSE, hmap |-> <<>>, hlog |-> <<>>]

\* awaits of a settled promise
MicroPcs == {"upd_micro"}
MicroPending == \E p \in Procs : procs[p].pc \in MicroPcs
Free(p) == procs[p].pc \in {"idle", "done"}
InFlight(p) == ~Free(p)
\* Callers are interchangeable: a call is issued by the first free caller.
\* A caller whose result is kept for its peer issues no call.
ReadyWithin(p, max) ==
    /\ Free(p)
    /\ calls < max
    /\ \A q \in Procs : q < p => ~Free(q)
    /\ ~(procs[p].hpeer # 0 /\ InFlight(procs[p].hpeer))
Ready(p) == ReadyWithin(p, MaxCalls)
\* no call is in flight
Quiet == \A p \in Procs : Free(p)

NullRes == [NoRes EXCEPT !.kind = "null"]
ThrowRes == [NoRes EXCEPT !.kind = "throw"]
SessRes(H, ref) == [NoRes EXCEPT !.kind = "session", !.ref = ref, !.val = <<H[ref]>>]
CountRes(n) == [NoRes EXCEPT !.kind = "count", !.n = n]
BoolRes(b) == [NoRes EXCEPT !.kind = IF b THEN "true" ELSE "false"]
ListRes(refs, n) == [NoRes EXCEPT !.kind = "list", !.refs = refs, !.n = n]

\* A result is read by the claims in the state its call returns in and is
\* forgotten by the next step; the result of one of two paired calls is kept
\* until the other has returned too.
Forget(P) ==
    [q \in DOMAIN P |->
        IF /\ procs[q].pc = "done"
           /\ P[q] = procs[q]
           /\ ~(procs[q].hpeer # 0 /\ InFlight(procs[q].hpeer))
        THEN IdleProc ELSE P[q]]

\* the new state of one step; P is procs with the stepping caller replaced
Commit(S, H, D, Sh, P, l) ==
    /\ sessions' = S
    /\ procs' = Forget(P)
    /\ heap' = Gc(H, S, Forget(P))
    /\ dbUsers' = D
    /\ dbShops' = Sh
    /\ last' = l
    /\ UNCHANGED now

\* a step that issues a call, and a step that resumes one
CommitCall(S, H, D, Sh, P, l) ==
    Commit(S, H, D, Sh, P, l) /\ calls' = calls + 1 /\ UNCHANGED <<faults, onboarded>>
CommitResume(S, H, D, Sh, P, l) ==
    Commit(S, H, D, Sh, P, l) /\ UNCHANGED <<calls, faults, onboarded>>

\* idle for longer than the timeout at time t
IdleTooLong(s, t) == t - s.lastActivity > SessionTimeout

\* what a call remembers of the state it was issued in
Called(op, k, u) ==
    LET has == k \in DOMAIN sessions /\ sessions[k] # 0
        idle == {x \in DOMAIN sessions :
                    sessions[x] # 0 /\ IdleTooLong(heap[sessions[x]], now)}
    IN  [IdleProc EXCEPT !.op = op, !.key = k, !.upd = u, !.prev = last,
            !.hlive = has /\ k \notin idle,
            !.hkexp = k \in idle,
            !.hval = IF has THEN <<heap[sessions[k]]>> ELSE <<>>,
            !.hothers = {procs[q].op : q \in {x \in Procs : InFlight(x)}},
            !.hexp = {sessions[x] : x \in idle},
            !.hnexp = Cardinality(idle),
            !.hmap = sessions]

Returned(c, res) == [c EXCEPT !.pc = "done", !.res = res, !.snap = <<>>]

(***************************************************************************)
(* UserSessionService, as functions of the Map S, the heap H, the users    *)
(* table D and the clock t.                                                *)
(***************************************************************************)
\* getSession without the expiry check
GetSessionMemNoExpiry(S, H, k, t) ==
    IF S[k] # 0
    THEN [S |-> S, H |-> [H EXCEPT ![S[k]].lastActivity = t],
          out |-> "hit", ref |-> S[k]]
    ELSE [S |-> S, H |-> H, out |-> "miss", ref |-> 0]

\* getSession up to its await: the entry is there and live ("hit": touched),
\* there and expired ("expired": deleted), or not there ("miss")
GetSessionMem(S, H, k, t) ==
    IF S[k] # 0
    THEN IF Expired(H[S[k]], t)
         THEN [S |-> [S EXCEPT ![k] = 0], H |-> H, out |-> "expired", ref |-> 0]
         ELSE [S |-> S, H |-> [H EXCEPT ![S[k]].lastActivity = t],
               out |-> "hit", ref |-> S[k]]
    ELSE [S |-> S, H |-> H, out |-> "miss", ref |-> 0]

\* getSession inserting a new session when the lookup fails
GetSessionRestoreOrCreate(S, H, D, k, t, ok, id) ==
    IF ok /\ k \in DOMAIN D
    THEN [S |-> [S EXCEPT ![k] = id],
          H |-> Put(H, id, createSessionFromUser(k, D[k], t)), ref |-> id]
    ELSE IF ok THEN [S |-> S, H |-> H, ref |-> 0]
         ELSE [S |-> [S EXCEPT ![k] = id],
               H |-> Put(H, id, NewSession(k, t)), ref |-> id]

\* getSession after userService.getUserByPhone: ok is FALSE when the lookup
\* threw; id is the object a restored session becomes
GetSessionRestore(S, H, D, k, t, ok, id) ==
    IF ok /\ k \in DOMAIN D
    THEN [S |-> [S EXCEPT ![k] = id],
          H |-> Put(H, id, createSessionFromUser(k, D[k], t)), ref |-> id]
    ELSE [S |-> S, H |-> H, ref |-> 0]

\* an updateSession that assigns the updates to every session object
UpdateSessionMergeAll(S, H, k, ref, updates, t) ==
    [S |-> [S EXCEPT ![k] = ref],
     H |-> [i \in DOMAIN H |->
              [ObjectAssign(H[i], SafeUpdates(updates)) EXCEPT !.lastActivity = t]]]

\* updateSession between its two awaits
UpdateSessionMerge(S, H, k, ref, updates, t) ==
    [S |-> [S EXCEPT ![k] = ref],
     H |-> [H EXCEPT ![ref] =
              [ObjectAssign(@, SafeUpdates(updates)) EXCEPT !.lastActivity = t]]]

\* syncSessionWithDatabase up to its await: the update it sends, none when
\* the key has no session
SyncSnapshot(S, H, k) ==
    IF S[k] = 0 THEN <<>>
    ELSE <<[user_data |-> ToJson(H[S[k]].userData),
            current_flow |-> H[S[k]].currentFlow,
            user_type |-> H[S[k]].userType,
            community |-> H[S[k]].community]>>

\* supabase.from('users').update(updateData).eq('phone', k): ok is FALSE when
\* the store fails; an undefined community is not sent
SyncApply(D, k, snap, ok) ==
    IF ok /\ Len(snap) > 0 /\ k \in DOMAIN D
    THEN [D EXCEPT ![k] =
            [@ EXCEPT !.user_data = snap[1].user_data,
                      !.current_flow = snap[1].current_flow,
                      !.user_type = snap[1].user_type,
                      !.community = IF snap[1].community = "undefined" THEN @
                                    ELSE snap[1].community]]
    ELSE D

\* a sweep that keeps the entry whose sync failed
SweepDeleteIfSynced(S, k, ok) == IF ok THEN [S EXCEPT ![k] = 0] ELSE S

\* cleanExpiredSessions after the sync of k, failed or not:
\* this.sessions.delete(phoneNumber)
SweepDelete(S, k, ok) == [S EXCEPT ![k] = 0]

\* the sweep's test with >= for >
ExpiredKeysOffByOne(S, H, t) ==
    {k \in DOMAIN S : S[k] # 0 /\ t - H[S[k]].lastActivity >= SessionTimeout}

\* the keys cleanExpiredSessions still has to remove, against its own now
ExpiredKeys(S, H, t) == {k \in DOMAIN S : S[k] # 0 /\ Expired(H[S[k]], t)}

(***************************************************************************)
(* The session store driven through its interface (IUserSessionService).   *)
(***************************************************************************)
\* the partials the callers pass to updateSession
UpdFlow == [NoUpd EXCEPT !.currentFlow = <<"seller_menu">>]
UpdIdent ==
    [NoUpd EXCEPT !.phoneNumber = <<KeyB>>, !.createdAt = <<MaxTime + 1>>,
                  !.lastActivity = <<0>>, !.community = <<"BAMEKA">>]
StorePartials == {UpdFlow, UpdIdent}

\* getSession(k)
CallGetSession(p, k) ==
    /\ Ready(p)
    /\ LET c == Called("getSession", k, NoUpd)
       IN  IF ~assertValidPhoneNumber(k)
           THEN CommitCall(sessions, heap, dbUsers, dbShops,
                   [procs EXCEPT ![p] = Returned(c, ThrowRes)], Step("getSession", k))
           ELSE LET g == GetSessionMem(sessions, heap, k, now)
                IN  CommitCall(g.S, g.H, dbUsers, dbShops,
                       [procs EXCEPT ![p] =
                          CASE g.out = "hit" -> Returned(c, SessRes(g.H, g.ref))
                            [] g.out = "expired" -> Returned(c, NullRes)
                            [] OTHER -> [c EXCEPT !.pc = "get_db"]],
                       Step("getSession", k))

\* getSession(k) resumed when userService.getUserByPhone has answered (ok) or
\* thrown
GetSessionResume(p) ==
    /\ procs[p].pc = "get_db"
    /\ ~MicroPending
    /\ CanAlloc
    /\ \E ok \in BOOLEAN :
        LET c == [procs[p] EXCEPT !.hrestore =
                    IF ~ok THEN "fail"
                    ELSE IF procs[p].key \in DOMAIN dbUsers THEN "ok" ELSE "norow"]
            r == GetSessionRestore(sessions, heap, dbUsers, c.key, now, ok, NewId)
        IN  CommitResume(r.S, r.H, dbUsers, dbShops,
               [procs EXCEPT ![p] =
                  IF c.op = "updateSession"
                  THEN [c EXCEPT !.pc = "upd_micro", !.ref = r.ref]
                  ELSE Returned(c, IF r.ref = 0 THEN NullRes ELSE SessRes(r.H, r.ref))],
               Step("getSession.resume", c.key))

\* createSession(k)
CallCreateSession(p, k) ==
    /\ Ready(p)
    /\ CanAlloc
    /\ LET c == Called("createSession", k, NoUpd)
           H == Put(heap, NewId, NewSession(k, now))
       IN  IF ~assertValidPhoneNumber(k)
           THEN CommitCall(sessions, heap, dbUsers, dbShops,
                   [procs EXCEPT ![p] = Returned(c, ThrowRes)], Step("createSession", k))
           ELSE CommitCall([sessions EXCEPT ![k] = NewId], H, dbUsers, dbShops,
                   [procs EXCEPT ![p] = Returned(c, SessRes(H, NewId))],
                   Step("createSession", k))

\* deleteSession(k)
CallDeleteSession(p, k) ==
    /\ Ready(p)
    /\ LET c == Called("deleteSession", k, NoUpd)
       IN  IF ~assertValidPhoneNumber(k)
           THEN CommitCall(sessions, heap, dbUsers, dbShops,
                   [procs EXCEPT ![p] = Returned(c, ThrowRes)], Step("deleteSession", k))
           ELSE CommitCall([sessions EXCEPT ![k] = 0], heap, dbUsers, dbShops,
                   [procs EXCEPT ![p] = Returned(c, BoolRes(sessions[k] # 0))],
                   Step("deleteSession", k))

\* two updateSession calls for one key, the second issued while the first is
\* in flight, are paired (history)
Paired(P, p, k) ==
    LET Q == {q \in Procs : /\ q # p
                            /\ InFlight(q)
                            /\ procs[q].op = "updateSession"
                            /\ procs[q].key = k
                            /\ procs[q].hpeer = 0}
    IN  IF Q = {} THEN P
        ELSE LET q == CHOOSE x \in Q : TRUE
             IN  [P EXCEPT ![p].hpeer = q, ![q].hpeer = p]

\* updateSession(k, updates) up to `await this.getSession(phoneNumber)`
CallUpdateSession(p, k, updates) ==
    /\ Ready(p)
    /\ LET c == Called("updateSession", k, updates)
       IN  IF ~assertValidPhoneNumber(k)
           THEN CommitCall(sessions, heap, dbUsers, dbShops,
                   [procs EXCEPT ![p] = Returned(c, ThrowRes)], Step("updateSession", k))
           ELSE LET g == GetSessionMem(sessions, heap, k, now)
                IN  CommitCall(g.S, g.H, dbUsers, dbShops,
                       Paired([procs EXCEPT ![p] =
                                  IF g.out = "miss" THEN [c EXCEPT !.pc = "get_db"]
                                  ELSE [c EXCEPT !.pc = "upd_micro", !.ref = g.ref]],
                              p, k),
                       Step("updateSession", k))

\* updateSession from the session getSession returned to
\* `await this.syncSessionWithDatabase(phoneNumber)`
UpdateSessionAssign(p) ==
    /\ procs[p].pc = "upd_micro"
    /\ LET c == procs[p]
       IN  IF c.ref = 0
           THEN CommitResume(sessions, heap, dbUsers, dbShops,
                   [procs EXCEPT ![p] = Returned(c, NullRes)],
                   Step("updateSession.null", c.key))
           ELSE LET m == UpdateSessionMerge(sessions, heap, c.key, c.ref, c.upd, now)
                IN  CommitResume(m.S, m.H, dbUsers, dbShops,
                       [procs EXCEPT ![p] =
                           [c EXCEPT !.pc = "upd_sync", !.hsync = TRUE,
                                     !.snap = SyncSnapshot(m.S, m.H, c.key)]],
                       Step("updateSession.assign", c.key))

\* updateSession resumed when the sync has answered: return session
UpdateSessionResume(p) ==
    /\ procs[p].pc = "upd_sync"
    /\ ~MicroPending
    /\ \E ok \in BOOLEAN :
        LET c == [procs[p] EXCEPT !.hlog = Append(@, [key |-> procs[p].key, ok |-> ok])]
        IN  CommitResume(sessions, heap, SyncApply(dbUsers, c.key, c.snap, ok), dbShops,
               [procs EXCEPT ![p] = Returned(c, SessRes(heap, c.ref))],
               Step("updateSession.resume", c.key))

\* cleanExpiredSessions: the loop runs to the next expired entry and awaits
\* its sync, or ends.  Entries are taken in any order: an entry that is not
\* expired against the sweep's own now never becomes so, and an expired one
\* stays so until it is removed.
CleanLoop(c, S, H, cleaned) ==
    LET E == ExpiredKeys(S, H, c.now0)
    IN  IF E = {}
        THEN {Returned([c EXCEPT !.cleaned = cleaned],
                 IF c.op = "getActiveSessions"
                 THEN ListRes({S[k] : k \in DOMAIN S} \ {0}, cleaned)
                 ELSE CountRes(cleaned))}
        ELSE {[c EXCEPT !.pc = "sweep_sync", !.key = k, !.cleaned = cleaned,
                        !.snap = SyncSnapshot(S, H, k)] : k \in E}

\* cleanExpiredSessions(), and getActiveSessions() which awaits it and
\* returns the values of the Map
CallCleanExpiredSessions(p, op) ==
    /\ Ready(p)
    /\ LET c == [Called(op, KeyA, NoUpd) EXCEPT !.now0 = now]
       IN  \E c2 \in CleanLoop(c, sessions, heap, 0) :
              CommitCall(sessions, heap, dbUsers, dbShops, [procs EXCEPT ![p] = c2],
                         [Step(op, KeyA) EXCEPT !.t = now])

\* cleanExpiredSessions resumed when the sync of one entry has answered (or
\* failed): the entry is deleted and counted
CleanExpiredResume(p) ==
    /\ procs[p].pc = "sweep_sync"
    /\ ~MicroPending
    /\ \E ok \in BOOLEAN :
        LET c == [procs[p] EXCEPT !.hlog = Append(@, [key |-> procs[p].key, ok |-> ok])]
            S == SweepDelete(sessions, c.key, ok)
        IN  \E c2 \in CleanLoop(c, S, heap, c.cleaned + 1) :
               CommitResume(S, heap, SyncApply(dbUsers, c.key, c.snap, ok), dbShops,
                      [procs EXCEPT ![p] = c2],
                      [Step(c.op \o ".resume", c.key) EXCEPT !.t = c.now0])

\* Time passes.  A call to the durable store or to the transport answers in
\* less than the session timeout: the clock steps at most once while a call
\* is in flight.
Tick ==
    /\ now < MaxTime
    /\ ~MicroPending
    /\ \A p \in Procs : InFlight(p) => procs[p].ticks = 0
    /\ now' = now + 1
    /\ procs' = Forget([p \in Procs |->
                    IF InFlight(p) THEN [procs[p] EXCEPT !.ticks = 1] ELSE procs[p]])
    /\ heap' = Gc(heap, sessions, procs')
    /\ last' = Step("tick", KeyA)
    /\ UNCHANGED <<sessions, dbUsers, dbShops, calls, faults, onboarded>>

\* the durable row of a user who onboarded as a seller
OnboardedRow ==
    [user_data |-> [EmptyUserData EXCEPT !.pendingUserType = "seller",
                        !.community = "BAMEKA", !.communityDisplayName = "# BAMEKA"],
     current_flow |-> "seller_menu", user_type |-> "seller",
     community |-> "BAMEKA", voucher_balance |-> 100, shop_id |-> 0]

\* KeyA has a durable row, KeyB has none
StoreDbs == {[k \in {KeyA} |-> OnboardedRow]}

InitStore ==
    /\ now = 0
    /\ sessions = [k \in ValidKeys |-> 0]
    /\ heap = [i \in {} |-> NewSession(KeyA, 0)]
    /\ dbUsers \in StoreDbs
    /\ dbShops = <<>>
    /\ procs = [p \in Procs |-> IdleProc]
    /\ last = [op |-> "none", key |-> KeyA, t |-> 0, had |-> FALSE]
    /\ calls = 0
    /\ faults = 0
    /\ onboarded = {k \in DOMAIN dbUsers : dbUsers[k].community # "null"}

\* one call at a time; time passes between calls and while a call awaits
NextStore ==
    \/ \E p \in Procs, k \in AllKeys : Quiet /\ CallGetSession(p, k)
    \/ \E p \in Procs : GetSessionResume(p)
    \/ \E p \in Procs, k \in AllKeys : Quiet /\ CallCreateSession(p, k)
    \/ \E p \in Procs, k \in AllKeys : Quiet /\ CallDeleteSession(p, k)
    \/ \E p \in Procs, k \in AllKeys, u \in StorePartials :
          Quiet /\ CallUpdateSession(p, k, u)
    \/ \E p \in Procs : UpdateSessionAssign(p)
    \/ \E p \in Procs : UpdateSessionResume(p)
    \/ \E p \in Procs, op \in {"cleanExpiredSessions", "getActiveSessions"} :
          Quiet /\ CallCleanExpiredSessions(p, op)
    \/ \E p \in Procs : CleanExpiredResume(p)
    \/ Tick

SpecStore == InitStore /\ [][NextStore]_vars

(***************************************************************************)
(* The session store with calls in flight at the same time, as the webhook *)
(* issues them: a call is issued while another awaits.                     *)
(***************************************************************************)
UpdType == [NoUpd EXCEPT !.userType = <<"seller">>, !.community = <<"BATOUFAM">>]
ConcPartials == {UpdFlow, UpdType}
ConcKeys == {KeyA}

NextConc ==
    \/ \E p \in Procs, k \in ConcKeys : Quiet /\ CallCreateSession(p, k)
    \/ \E p \in Procs, k \in ConcKeys : CallGetSession(p, k)
    \/ \E p \in Procs : GetSessionResume(p)
    \/ \E p \in Procs, k \in ConcKeys, u \in ConcPartials : CallUpdateSession(p, k, u)
    \/ \E p \in Procs : UpdateSessionAssign(p)
    \/ \E p \in Procs : UpdateSessionResume(p)
    \/ \E p \in Procs : CallCleanExpiredSessions(p, "cleanExpiredSessions")
    \/ \E p \in Procs : CleanExpiredResume(p)
    \/ Tick

SpecConc == InitStore /\ [][NextConc]_vars

(***************************************************************************)
(* BotService.  An inbound event is handled by one caller; q is what is    *)
(* left of its handler chain: the call it awaits (the head) and what       *)
(* follows.  "code" is synchronous code that runs when it is reached,      *)
(* "endtry" closes a try block, every other instruction is an awaited call *)
(* to the session store, the durable store or the transport.               *)
(***************************************************************************)
\* handleShopNameInput: name.trim().length < 2, > 50
MinShopName == 2
MaxShopName == 50
\* handleShopDescriptionInput: description.trim().length < 10, > 200
MinShopDescription == 10
MaxShopDescription == 200
\* handleCommunitySelection: existingUser?.voucher_balance || 100
DefaultVoucherBalance == 100

\* COMMUNITIES[name].displayName
DisplayName(community) ==
    CASE community = "BAMEKA" -> "# BAMEKA"
      [] community = "BATOUFAM" -> "# BATOUFAM"
      [] community = "FONDJOMEKWET" -> "# FONDJOMEKWET"
      [] OTHER -> "undefined"

\* communityMap[message]: communityMap is an object literal, so the property
\* names of Object.prototype that survive lower-casing select an inherited
\* value ("inherited"), which is truthy and names no community
communityMap(message) ==
    CASE message \in {<<"c","o","n","s","t","r","u","c","t","o","r">>,
                      <<"_","_","p","r","o","t","o","_","_">>} -> "inherited"
      [] message \in {<<"1">>, <<"b","a","m","e","k","a">>} -> "BAMEKA"
      [] message \in {<<"2">>, <<"b","a","t","o","u","f","a","m">>} -> "BATOUFAM"
      [] message \in {<<"3">>, <<"f","o","n","d","j","o">>,
                      <<"f","o","n","d","j","o","m","e","k","w","e","t">>} -> "FONDJOMEKWET"
      [] OTHER -> "undefined"

\* ['help', 'menu', 'start', '0']
GlobalCommands ==
    {<<"h","e","l","p">>, <<"m","e","n","u">>, <<"s","t","a","r","t">>, <<"0">>}

\* ShopService.getShopCategories
getShopCategories ==
    <<"General Store", "Food & Beverages", "Clothing & Fashion", "Electronics",
      "Health & Beauty", "Home & Garden", "Arts & Crafts", "Services",
      "Agriculture", "Other">>

\* handleShopCategorySelect: selectedCategory, "null" when the input selects
\* none (NaN compares false)
selectedCategory(input) ==
    LET n == ParseInt(input)
        categoryIndex == n.v - 1
    IN  IF ~n.nan /\ categoryIndex >= 0 /\ categoryIndex < Len(getShopCategories)
        THEN getShopCategories[categoryIndex + 1]
        ELSE "null"

\* a row of the users table as an insert leaves the columns it does not name
DefaultRow ==
    [user_data |-> EmptyUserData, current_flow |-> "null", user_type |-> "null",
     community |-> "null", voucher_balance |-> 0, shop_id |-> 0]

\* supabase.from('users').upsert(cols, { onConflict: 'phone' })
Upsert(D, k, cols) ==
    LET old == IF k \in DOMAIN D THEN D[k] ELSE DefaultRow
        row == [f \in DOMAIN old |-> IF f \in DOMAIN cols THEN cols[f] ELSE old[f]]
    IN  [x \in DOMAIN D \cup {k} |-> IF x = k THEN row ELSE D[x]]

\* .from('shops').select('*').eq('owner_phone', ownerPhone).single(): the row
\* when there is exactly one, else none (PGRST116)
getShopByOwner(Sh, ownerPhone) ==
    LET I == {i \in 1..Len(Sh) : Sh[i].owner_phone = ownerPhone}
    IN  IF Cardinality(I) = 1 THEN <<Sh[CHOOSE i \in I : TRUE]>> ELSE <<>>

\* .from('shops').select('id').eq('name', name.trim()).eq('community', c)
isShopNameTaken(Sh, name, community) ==
    \E i \in 1..Len(Sh) : Sh[i].name = Trim(name) /\ Sh[i].community = community

\* an outbound message: its template and the values it interpolates
Msg(t) == [t |-> t, n |-> 0, s |-> "", x |-> <<>>]

Ins(i, a) == [i |-> i, a |-> a]
Send(t) == Ins("send", t)

\* the session object the event's handlers hold (userSession)
Sess(st) == st.H[st.c.ref]

Pop(st) == [st EXCEPT !.c.q = Tail(@)]
\* the head is replaced by what it calls
Push(st, instrs) == [st EXCEPT !.c.q = instrs \o Tail(@)]

\* throw: the rest of the innermost try block is skipped and its catch runs;
\* with no try block around, the event's promise rejects
Raise(st, e) ==
    LET q == st.c.q
        T == {i \in 1..Len(q) : q[i].i = "endtry"}
    IN  IF T = {}
        THEN [st EXCEPT !.c.q = <<>>, !.c.loc.exc = e, !.c.loc.thrown = TRUE]
        ELSE LET j == CHOOSE i \in T : \A k \in T : i <= k
             IN  [st EXCEPT !.c.q = <<Ins("code", "catch " \o q[j].a)>>
                                        \o SubSeq(q, j + 1, Len(q)),
                            !.c.loc.exc = e]

\* { ...userSession.userData.shopCreation }: the spread of a missing draft is {}
SpreadDraft(userData) ==
    IF userData.shopCreation.st = "set" THEN userData.shopCreation ELSE EmptyDraft

\* the partials the handlers pass to updateSession, built from the session
\* the handler holds when it makes the call
PartialOf(kind, st) ==
    LET ud == Sess(st).userData
        msg == st.c.msg
        cn == st.c.loc.comm
        ut == st.c.loc.userType
        Flow(f) == [NoUpd EXCEPT !.currentFlow = <<f>>]
    IN  CASE kind = "showMainMenu" -> Flow("main_menu")
          [] kind \in {"seller", "buyer"} ->
                [Flow("community_selection") EXCEPT
                    !.userData = <<[ud EXCEPT !.pendingUserType = kind]>>]
          [] kind = "handleCommunitySelection" ->
                [NoUpd EXCEPT
                    !.community = <<cn>>,
                    !.communityVoucher = <<getCommunityVoucher(cn)>>,
                    !.userType = <<ut>>,
                    !.currentFlow = <<IF ut = "seller" THEN "seller_menu"
                                      ELSE "buyer_menu">>,
                    !.userData = <<[ud EXCEPT !.community = cn,
                                     !.communityDisplayName = DisplayName(cn)]>>]
          [] kind = "initiateShopCreation" ->
                [Flow("shop_name_input") EXCEPT
                    !.userData = <<[ud EXCEPT !.shopCreation = EmptyDraft]>>]
          [] kind = "handleShopNameInput" ->
                [Flow("shop_description_input") EXCEPT
                    !.userData = <<[ud EXCEPT !.shopCreation =
                        [SpreadDraft(ud) EXCEPT !.name = <<Trim(msg)>>]]>>]
          [] kind = "handleShopDescriptionInput" ->
                [Flow("shop_category_select") EXCEPT
                    !.userData = <<[ud EXCEPT !.shopCreation =
                        [SpreadDraft(ud) EXCEPT !.description = <<Trim(msg)>>]]>>]
          [] kind = "handleShopCategorySelect" ->
                [Flow("shop_confirmation") EXCEPT
                    !.userData = <<[ud EXCEPT !.shopCreation =
                        [SpreadDraft(ud) EXCEPT !.category = <<selectedCategory(msg)>>]]>>]
          [] kind = "back to name" -> Flow("shop_name_input")
          [] kind = "back to description" -> Flow("shop_description_input")
          [] kind = "back to category" -> Flow("shop_category_select")
          [] kind = "createShopFinal" ->
                [Flow("seller_menu") EXCEPT
                    !.userData = <<[ud EXCEPT
                        !.shopCreation = [NoDraft EXCEPT !.st = "undefined"],
                        !.shopId = st.c.loc.newShop]>>]

\* await this.userSessionService.updateSession(phoneNumber, partial), up to
\* its first await of I/O: the sync when the session is in the Map, the
\* restoration when the key has no entry; on an expired entry it returns null
UpdStart(st, kind) ==
    LET u == PartialOf(kind, st)
        k == st.c.key
        g == GetSessionMem(st.S, st.H, k, now)
    IN  CASE g.out = "hit" ->
                LET m == UpdateSessionMerge(g.S, g.H, k, g.ref, u, now)
                IN  [st EXCEPT !.S = m.S, !.H = m.H, !.c.upd = u,
                               !.c.snap = SyncSnapshot(m.S, m.H, k),
                               !.c.q = <<Ins("sync", "")>> \o Tail(@)]
          [] g.out = "expired" ->
                [st EXCEPT !.S = g.S, !.c.upd = u, !.c.q = Tail(@)]
          [] OTHER ->
                [st EXCEPT !.c.upd = u, !.c.q = <<Ins("updrestore", "")>> \o Tail(@)]

\* showMainMenu
showMainMenu == <<Ins("upd", "showMainMenu"), Send("main menu")>>
\* showSellerMenu, showBuyerMenu
showSellerMenu == <<Send("seller menu")>>
showBuyerMenu == <<Send("buyer menu")>>

\* a community selection that marks every user a seller
initiateCommunitySelectionSeller(userType) ==
    <<Ins("upd", "seller"), Send("select your community")>>

\* initiateCommunitySelection(phoneNumber, userSession, userType)
initiateCommunitySelection(userType) ==
    <<Ins("upd", userType), Send("select your community")>>

\* handleCommunitySelection saving the session after the row is saved
handleCommunitySelectionLate(st, communityName) ==
    LET pendingUserType == Sess(st).userData.pendingUserType
        userType == IF pendingUserType \in {"seller", "buyer"}
                    THEN pendingUserType ELSE "null"
    IN  Push([st EXCEPT !.c.loc.comm = communityName, !.c.loc.userType = userType],
             <<Ins("fetchUser", ""), Ins("upd", "handleCommunitySelection"),
               Ins("code", "community fetched"), Ins("endtry", "community")>>)

\* handleCommunitySelection(phoneNumber, userSession, communityName), to its
\* updateSession and the lookup of the user in its try block;
\* this.COMMUNITIES[communityName] is undefined for a name that is no
\* community and reading its voucher throws
handleCommunitySelection(st, communityName) ==
    LET pendingUserType == Sess(st).userData.pendingUserType
        userType == IF pendingUserType \in {"seller", "buyer"}
                    THEN pendingUserType ELSE "null"
    IN  IF DisplayName(communityName) = "undefined" THEN Raise(st, "TypeError")
        ELSE
        Push([st EXCEPT !.c.loc.comm = communityName, !.c.loc.userType = userType],
             <<Ins("upd", "handleCommunitySelection"), Ins("fetchUser", ""),
               Ins("code", "community fetched"), Ins("endtry", "community")>>)

\* handleCommunitySelection from the lookup's answer: the balance, the upsert
communityFetched(st) ==
    LET existingUser == st.c.loc.user
        voucherBalance ==
            IF Len(existingUser) > 0 /\ existingUser[1].voucher_balance # 0
            THEN existingUser[1].voucher_balance ELSE DefaultVoucherBalance
    IN  Push([st EXCEPT !.c.loc.vb = voucherBalance],
             <<Ins("upsertUser", ""), Ins("code", "community saved")>>)

\* handleCommunitySelection from the upsert: the welcome message of a user
\* with no row, then the menu of the role
communitySaved(st) ==
    Push(st, (IF Len(st.c.loc.user) = 0 THEN <<Send("welcome voucher")>> ELSE <<>>)
             \o (IF st.c.loc.userType = "seller" THEN showSellerMenu
                 ELSE showBuyerMenu))

\* handleCommunitySelectionInput
handleCommunitySelectionInput(st) ==
    IF st.c.msg = <<"0">> THEN Push(st, showMainMenu)
    ELSE IF communityMap(st.c.msg) # "undefined"
         THEN handleCommunitySelection(st, communityMap(st.c.msg))
         ELSE Push(st, <<Send("invalid community")>>)

\* handleMainMenuInput
handleMainMenuInput(st) ==
    CASE st.c.msg = <<"1">> -> Push(st, initiateCommunitySelection("seller"))
      [] st.c.msg = <<"2">> -> Push(st, initiateCommunitySelection("buyer"))
      [] OTHER -> Push(st, <<Send("invalid main option")>>)

\* initiateShopCreation, to the lookup of the owner's shop
initiateShopCreation ==
    <<Ins("shopByOwner", ""), Ins("code", "initiate shop"), Ins("endtry", "initiate shop")>>

\* initiateShopCreation without the test of the lookup's answer
initiateShopCreationAnyway(st) ==
    Push(st, <<Ins("upd", "initiateShopCreation"), Send("step 1: shop name")>>)

\* initiateShopCreation from the lookup's answer
initiateShopCreationFound(st) ==
    IF Len(st.c.loc.shop) > 0
    THEN Push(st, <<Send("you already have a shop")>> \o showSellerMenu)
    ELSE Push(st, <<Ins("upd", "initiateShopCreation"), Send("step 1: shop name")>>)

\* handleManageShop, to the lookup of the owner's shop
handleManageShop ==
    <<Ins("shopByOwner", ""), Ins("code", "manage shop"), Ins("endtry", "manage shop")>>

\* handleManageShop from the lookup's answer
handleManageShopFound(st) ==
    IF Len(st.c.loc.shop) = 0
    THEN Push(st, <<Send("no shop yet")>> \o showSellerMenu)
    ELSE Push(st, <<Send("shop management")>>)

\* handleSellerMenuInput
handleSellerMenuInput(st) ==
    CASE st.c.msg = <<"1">> -> Push(st, initiateShopCreation)
      [] st.c.msg = <<"2">> -> Push(st, handleManageShop)
      [] st.c.msg = <<"3">> -> Push(st, <<Send("payments coming soon")>> \o showSellerMenu)
      [] st.c.msg = <<"4">> -> Push(st, <<Send("eos coming soon")>> \o showSellerMenu)
      [] st.c.msg = <<"0">> -> Push(st, showMainMenu)
      [] OTHER -> Push(st, <<Send("invalid seller option")>> \o showSellerMenu)

\* handleBuyerMenuInput
handleBuyerMenuInput(st) ==
    CASE st.c.msg \in {<<"1">>, <<"2">>, <<"3">>, <<"4">>} ->
            Push(st, <<Send("buyer feature coming soon")>> \o showBuyerMenu)
      [] st.c.msg = <<"0">> -> Push(st, showMainMenu)
      [] OTHER -> Push(st, <<Send("invalid buyer option")>> \o showBuyerMenu)

\* handleShopNameInput, to the registry's answer: neither validation returns
handleShopNameInput(st) ==
    LET name == st.c.msg
    IN  Push(st,
            (IF Len(Trim(name)) < MinShopName THEN <<Send("name too short")>> ELSE <<>>)
            \o (IF Len(Trim(name)) > MaxShopName THEN <<Send("name too long")>> ELSE <<>>)
            \o <<Ins("code", "name query"), Ins("nameTaken", ""),
                 Ins("code", "name checked")>>)

\* shopService.isShopNameTaken(name.trim(), userSession.community!)
handleShopNameInputQuery(st) ==
    Push([st EXCEPT !.c.loc.qname = Trim(st.c.msg), !.c.loc.qcomm = Sess(st).community],
         <<>>)

\* handleShopNameInput from the registry's answer: the name is saved and the
\* flow moves on, taken or not
handleShopNameInputChecked(st) ==
    Push(st, (IF st.c.loc.nameTaken THEN <<Send("name taken")>> ELSE <<>>)
             \o <<Ins("upd", "handleShopNameInput"), Send("step 2: description")>>)

\* handleShopDescriptionInput
handleShopDescriptionInput(st) ==
    LET description == st.c.msg
    IN  Push(st,
            (IF description = <<"b","a","c","k">>
             THEN <<Ins("upd", "back to name"), Send("back to shop name")>> ELSE <<>>)
            \o (IF Len(Trim(description)) < MinShopDescription
                THEN <<Send("description too short")>> ELSE <<>>)
            \o (IF Len(Trim(description)) > MaxShopDescription
                THEN <<Send("description too long")>> ELSE <<>>)
            \o <<Ins("upd", "handleShopDescriptionInput"), Send("step 3: category")>>)

\* handleShopCategorySelect
handleShopCategorySelect(st) ==
    LET input == st.c.msg
    IN  Push(st,
            (IF input = <<"b","a","c","k">>
             THEN <<Ins("upd", "back to description"), Send("back to description")>>
             ELSE <<>>)
            \o (IF selectedCategory(input) = "null"
                THEN <<Send("invalid category")>> ELSE <<>>)
            \o <<Ins("upd", "handleShopCategorySelect"), Send("step 4: confirmation")>>)

\* createShopFinal, to shopData
createShopFinal ==
    <<Send("creating your shop"), Ins("code", "shop data"),
      Ins("endtry", "create shop")>>

\* createShopFinal: shopData read from the draft, then createShop to its
\* lookup of the owner's shop
createShopFinalData(st) ==
    LET shopCreation == Sess(st).userData.shopCreation
    IN  IF shopCreation.st # "set"
        THEN Raise(st, "TypeError")
        ELSE Push([st EXCEPT !.c.loc.sd =
                      <<[name |-> shopCreation.name,
                         description |-> shopCreation.description,
                         category |-> shopCreation.category,
                         owner_phone |-> st.c.key,
                         community |-> Sess(st).community]>>],
                  <<Ins("shopByOwner", ""), Ins("code", "createShop owner")>>)

\* ShopService.createShop from getShopByOwner's answer to isShopNameTaken
createShopOwner(st) ==
    LET shopData == st.c.loc.sd[1]
    IN  IF Len(st.c.loc.shop) > 0
        THEN Raise(st, "User already has a shop")
        ELSE IF Len(shopData.name) = 0
             THEN Raise(st, "Failed to check shop name availability")
             ELSE Push([st EXCEPT !.c.loc.qname = shopData.name[1],
                                  !.c.loc.qcomm = shopData.community],
                       <<Ins("nameTaken", ""), Ins("code", "createShop name")>>)

\* a createShopFinal that leaves the session as it was after the shop is made
createShopNameNoUpdate(st) ==
    LET shopData == st.c.loc.sd[1]
    IN  IF st.c.loc.nameTaken
        THEN Raise(st, "Shop name is already taken in this community")
        ELSE IF Len(shopData.description) = 0
             THEN Raise(st, "Failed to create shop")
             ELSE Push(st, <<Ins("insertShop", ""), Ins("markOwner", ""),
                             Send("shop created"), Ins("timer", "seller menu")>>)

\* ShopService.createShop from isShopNameTaken's answer: the insert, the
\* owner's row; then createShopFinal's update, its message and its timer
createShopName(st) ==
    LET shopData == st.c.loc.sd[1]
    IN  IF st.c.loc.nameTaken
        THEN Raise(st, "Shop name is already taken in this community")
        ELSE IF Len(shopData.description) = 0
             THEN Raise(st, "Failed to create shop")
             ELSE Push(st, <<Ins("insertShop", ""), Ins("markOwner", ""),
                             Ins("upd", "createShopFinal"), Send("shop created"),
                             Ins("timer", "seller menu")>>)

\* handleShopConfirmation: case '2' falls through to case '3'
handleShopConfirmation(st) ==
    CASE st.c.msg = <<"1">> -> Push(st, createShopFinal)
      [] st.c.msg = <<"2">> ->
            Push(st, <<Ins("upd", "back to category"), Send("back to category"),
                       Send("shop creation cancelled")>> \o showSellerMenu)
      [] st.c.msg = <<"3">> ->
            Push(st, <<Send("shop creation cancelled")>> \o showSellerMenu)
      [] OTHER -> Push(st, <<Send("invalid choice")>>)

\* handleShopCreationFlow
handleShopCreationFlow(st) ==
    IF st.c.msg = <<"c","a","n","c","e","l">>
    THEN Push(st, <<Send("shop creation cancelled")>> \o showSellerMenu)
    ELSE LET flow == Sess(st).currentFlow
             h == CASE flow = "shop_name_input" -> handleShopNameInput(st)
                    [] flow = "shop_description_input" -> handleShopDescriptionInput(st)
                    [] flow = "shop_category_select" -> handleShopCategorySelect(st)
                    [] flow = "shop_confirmation" -> handleShopConfirmation(st)
             n == Len(h.c.q) - Len(st.c.q) + 1
         IN  [h EXCEPT !.c.q = SubSeq(@, 1, n) \o <<Ins("endtry", "shop flow")>>
                                 \o SubSeq(@, n + 1, Len(@))]

\* handleTextMessage with the global commands tried last
handleTextMessageFlowFirst(st) ==
    LET flow == Sess(st).currentFlow
    IN  CASE flow = "main_menu" -> handleMainMenuInput(st)
          [] flow = "community_selection" -> handleCommunitySelectionInput(st)
          [] flow = "seller_menu" -> handleSellerMenuInput(st)
          [] flow = "buyer_menu" -> handleBuyerMenuInput(st)
          [] flow \in {"shop_name_input", "shop_description_input",
                       "shop_category_select", "shop_confirmation"} ->
                handleShopCreationFlow(st)
          [] OTHER -> IF st.c.msg \in GlobalCommands THEN Push(st, showMainMenu)
                      ELSE Push(st, <<Send("not understood")>>)

\* handleTextMessage
handleTextMessage(st) ==
    LET flow == Sess(st).currentFlow
    IN  IF st.c.msg \in GlobalCommands THEN Push(st, showMainMenu)
        ELSE CASE flow = "main_menu" -> handleMainMenuInput(st)
               [] flow = "community_selection" -> handleCommunitySelectionInput(st)
               [] flow = "seller_menu" -> handleSellerMenuInput(st)
               [] flow = "buyer_menu" -> handleBuyerMenuInput(st)
               [] flow \in {"shop_name_input", "shop_description_input",
                            "shop_category_select", "shop_confirmation"} ->
                     handleShopCreationFlow(st)
               [] OTHER -> Push(st, <<Send("not understood")>>)

\* handleInteractiveResponse
handleInteractiveResponse(st) ==
    LET responseId == st.c.msg
    IN  CASE responseId = <<"seller_register">> ->
                Push(st, initiateCommunitySelection("seller"))
          [] responseId = <<"buyer_browse">> ->
                Push(st, initiateCommunitySelection("buyer"))
          [] responseId = <<"select_bameka">> -> handleCommunitySelection(st, "BAMEKA")
          [] responseId = <<"select_batoufam">> -> handleCommunitySelection(st, "BATOUFAM")
          [] responseId = <<"select_fondjomekwet">> ->
                handleCommunitySelection(st, "FONDJOMEKWET")
          [] responseId \in {<<"back_to_main">>, <<"back">>} -> Push(st, showMainMenu)
          [] OTHER -> Push(st, <<Send("unknown selection")>>)

\* this.userSessionService.createSession(phoneNumber) and the row
\* processIncomingMessage then upserts
firstContact(st) ==
    Push([st EXCEPT !.S = [@ EXCEPT ![st.c.key] = NewId],
                    !.H = Put(@, NewId, NewSession(st.c.key, now)),
                    !.c.ref = NewId],
         <<Ins("upsertFirst", ""), Ins("code", "dispatch")>>)

\* processIncomingMessage, to the session: getSession(phoneNumber)
processIncomingMessage(st) ==
    IF ~assertValidPhoneNumber(st.c.key)
    THEN Raise(st, "Error")
    ELSE LET g == GetSessionMem(st.S, st.H, st.c.key, now)
             s2 == [st EXCEPT !.S = g.S, !.H = g.H, !.c.ref = g.ref]
         IN  CASE g.out = "hit" -> Push(s2, <<Ins("code", "dispatch")>>)
               [] g.out = "expired" -> firstContact(s2)
               [] OTHER -> Push(s2, <<Ins("restore", ""), Ins("code", "restored")>>)

\* processIncomingMessage from the session to the handler of the event
dispatch(st) ==
    LET s1 == [st EXCEPT !.c.tflow = Sess(st).currentFlow, !.c.tsess = <<Sess(st)>>]
        s2 == [s1 EXCEPT !.c.msg = Trim(ToLowerCase(s1.c.raw))]
    IN  IF st.c.kind = "interactive" THEN handleInteractiveResponse(s1)
        ELSE IF Len(st.c.raw) > 0 THEN handleTextMessage(s2)
        ELSE Push(s1, <<>>)

\* error instanceof ShopServiceError
IsShopServiceError(e) == e \notin {"none", "Error", "TypeError", "WhatsAppServiceError"}

\* synchronous code reached in the handler chain, catch blocks included
Code(label, st) ==
    CASE label = "processIncomingMessage" -> processIncomingMessage(st)
      [] label = "restored" ->
            IF st.c.ref = 0 THEN firstContact(st)
            ELSE Push(st, <<Ins("code", "dispatch")>>)
      [] label = "dispatch" -> dispatch(st)
      [] label = "community fetched" -> communityFetched(st)
      [] label = "community saved" -> communitySaved(st)
      [] label = "initiate shop" -> initiateShopCreationFound(st)
      [] label = "manage shop" -> handleManageShopFound(st)
      [] label = "name query" -> handleShopNameInputQuery(st)
      [] label = "name checked" -> handleShopNameInputChecked(st)
      [] label = "shop data" -> createShopFinalData(st)
      [] label = "createShop owner" -> createShopOwner(st)
      [] label = "createShop name" -> createShopName(st)
      [] label = "catch processIncomingMessage" -> Push(st, <<Send("something went wrong")>>)
      [] label = "catch community" -> Push(st, <<Send("could not save community")>>)
      [] label = "catch initiate shop" -> Push(st, <<Send("could not start shop creation")>>)
      [] label = "catch manage shop" -> Push(st, <<Send("could not load shop")>>)
      [] label = "catch shop flow" ->
            Push(st, <<Send("something went wrong in shop creation")>> \o showSellerMenu)
      [] label = "catch create shop" ->
            Push(st, <<Send(IF IsShopServiceError(st.c.loc.exc) THEN "error.message"
                            ELSE "failed to create shop")>> \o showSellerMenu)

\* the message a template becomes where it is sent
MsgOf(t, st) ==
    CASE t = "welcome voucher" ->
            [Msg(t) EXCEPT !.n = st.c.loc.vb, !.s = getCommunityVoucher(st.c.loc.comm)]
      [] t = "error.message" -> [Msg(t) EXCEPT !.s = st.c.loc.exc]
      [] t \in {"name taken", "step 2: description"} -> [Msg(t) EXCEPT !.x = Trim(st.c.msg)]
      [] t = "shop created" -> [Msg(t) EXCEPT !.x = st.Sh[st.c.loc.newShop].name]
      [] OTHER -> Msg(t)

\* a row inserted without its category
newShopNoCategory(Sh, shopData) ==
    [id |-> Len(Sh) + 1,
     name |-> Trim(shopData.name[1]),
     description |-> Trim(shopData.description[1]),
     owner_phone |-> shopData.owner_phone,
     community |-> shopData.community,
     category |-> <<>>]

\* the row ShopService.createShop inserts; the id is the row's position
newShop(Sh, shopData) ==
    [id |-> Len(Sh) + 1,
     name |-> Trim(shopData.name[1]),
     description |-> Trim(shopData.description[1]),
     owner_phone |-> shopData.owner_phone,
     community |-> shopData.community,
     category |-> shopData.category]

\* The awaited call at the head of q answers: ok is FALSE when the transport
\* or the durable store fails.  What the caller does with the answer.
Finish(st, ok) ==
    LET i == Head(st.c.q)
        k == st.c.key
        loc == st.c.loc
    IN  CASE i.i = "send" ->
                IF ok THEN Pop([st EXCEPT !.c.sent = Append(@, MsgOf(i.a, st))])
                ELSE Raise(st, "WhatsAppServiceError")
          [] i.i = "timer" ->
                \* setTimeout(() => this.showSellerMenu(...), 2000): nobody
                \* awaits this send
                Pop(IF ok THEN [st EXCEPT !.c.sent = Append(@, MsgOf(i.a, st))] ELSE st)
          [] i.i = "sync" ->
                Pop([st EXCEPT !.D = SyncApply(@, k, st.c.snap, ok), !.c.snap = <<>>])
          [] i.i = "updrestore" ->
                LET r == GetSessionRestore(st.S, st.H, st.D, k, now, ok, NewId)
                IN  IF r.ref = 0 THEN Pop(st)
                    ELSE LET m == UpdateSessionMerge(r.S, r.H, k, r.ref, st.c.upd, now)
                         IN  [st EXCEPT !.S = m.S, !.H = m.H,
                                        !.c.snap = SyncSnapshot(m.S, m.H, k),
                                        !.c.q = <<Ins("sync", "")>> \o Tail(@)]
          [] i.i = "restore" ->
                LET r == GetSessionRestore(st.S, st.H, st.D, k, now, ok, NewId)
                IN  Pop([st EXCEPT !.S = r.S, !.H = r.H, !.c.ref = r.ref])
          [] i.i = "upsertFirst" ->
                Pop(IF ok
                    THEN [st EXCEPT !.D = Upsert(@, k,
                            [user_data |-> ToJson(NewSession(k, now).userData),
                             community |-> "null",
                             voucher_balance |-> 0,
                             current_flow |-> "main_menu"])]
                    ELSE st)
          [] i.i = "fetchUser" ->
                IF ok
                THEN Pop([st EXCEPT !.c.loc.user =
                            IF k \in DOMAIN st.D THEN <<st.D[k]>> ELSE <<>>])
                ELSE Raise(st, "Error")
          [] i.i = "upsertUser" ->
                Pop(IF ok
                    THEN [st EXCEPT !.D = Upsert(@, k,
                            [user_data |-> ToJson(st.c.upd.userData[1]),
                             community |-> loc.comm,
                             voucher_balance |-> loc.vb,
                             current_flow |-> st.c.upd.currentFlow[1]])]
                    ELSE st)
          [] i.i = "shopByOwner" ->
                IF ok THEN Pop([st EXCEPT !.c.loc.shop = getShopByOwner(st.Sh, k)])
                ELSE Raise(st, "Failed to fetch shop")
          [] i.i = "nameTaken" ->
                IF ok
                THEN Pop([st EXCEPT !.c.loc.nameTaken =
                            isShopNameTaken(st.Sh, loc.qname, loc.qcomm)])
                ELSE Raise(st, "Failed to check shop name availability")
          [] i.i = "insertShop" ->
                IF ok
                THEN Pop([st EXCEPT !.Sh = Append(@, newShop(st.Sh, loc.sd[1])),
                                    !.c.loc.newShop = Len(st.Sh) + 1])
                ELSE Raise(st, "Failed to create shop")
          [] i.i = "markOwner" ->
                IF ok
                THEN Pop([st EXCEPT !.D =
                            IF k \in DOMAIN @
                            THEN [@ EXCEPT ![k].user_type = "seller",
                                           ![k].shop_id = loc.newShop]
                            ELSE @])
                ELSE Raise(st, "Failed to update user status")

\* the caller runs until it awaits I/O or its handler chain ends
RECURSIVE Drive(_)
Drive(st) ==
    IF Len(st.c.q) = 0 THEN st
    ELSE LET i == Head(st.c.q)
         IN  CASE i.i = "code" -> Drive(Code(i.a, st))
               [] i.i = "endtry" -> Drive(Pop(st))
               [] i.i = "upd" -> Drive(UpdStart(st, i.a))
               [] OTHER -> st

\* the caller awaits (pc "io") or the event is done
Settle(c) ==
    IF Len(c.q) = 0
    THEN Returned(c, IF c.loc.thrown THEN ThrowRes ELSE NullRes)
    ELSE [c EXCEPT !.pc = "io"]

\* an inbound event arrives: processIncomingMessage(messageData) to its
\* first await of I/O
Receive(p, k, m) ==
    /\ ReadyWithin(p, MaxTurns)
    /\ CanAlloc
    /\ LET c == [Called("message", k, NoUpd) EXCEPT
                    !.kind = m.kind, !.raw = m.body, !.msg = m.body,
                    !.honb = k \in onboarded,
                    !.q = <<Ins("code", "processIncomingMessage"),
                            Ins("endtry", "processIncomingMessage")>>]
           st == Drive([S |-> sessions, H |-> heap, D |-> dbUsers, Sh |-> dbShops,
                        c |-> c])
       IN  CommitCall(st.S, st.H, st.D, st.Sh, [procs EXCEPT ![p] = Settle(st.c)],
                      Step("message", k))

\* the call a caller awaits answers and the caller runs on
Resume(p, kinds) ==
    /\ procs[p].pc = "io"
    /\ Head(procs[p].q).i \in kinds
    /\ CanAlloc
    /\ \E ok \in BOOLEAN :
        /\ ok \/ faults < MaxFaults
        /\ LET st == Drive(Finish([S |-> sessions, H |-> heap, D |-> dbUsers,
                                   Sh |-> dbShops, c |-> procs[p]], ok))
           IN  Commit(st.S, st.H, st.D, st.Sh, [procs EXCEPT ![p] = Settle(st.c)],
                      Step("message.resume", procs[p].key))
        /\ faults' = IF ok THEN faults ELSE faults + 1
        /\ onboarded' = IF ok /\ Head(procs[p].q).i = "upsertUser"
                         THEN onboarded \cup {procs[p].key} ELSE onboarded
        /\ UNCHANGED calls

\* whatsappService.sendMessage answers
TransportAnswers(p) == Resume(p, {"send"})
\* the timer createShopFinal set fires and its send answers
TimerFires(p) == Resume(p, {"timer"})
\* the durable store answers
StoreAnswers(p) ==
    Resume(p, {"sync", "updrestore", "restore", "upsertFirst", "fetchUser",
               "upsertUser", "shopByOwner", "nameTaken", "insertShop", "markOwner"})

(***************************************************************************)
(* The bot driven by inbound events, one at a time: an event arrives when  *)
(* the one before it has been handled.                                     *)
(***************************************************************************)
Text(body) == [kind |-> "text", body |-> body]
Interactive(id) == [kind |-> "interactive", body |-> <<id>>]

\* a name as it is typed and as the bot reads it
NameTyped == <<" ","A","b">>
NameOk == <<"a","b">>
NameShort == <<"a">>
DescriptionOk == Rep("d", MinShopDescription)

\* what the users send
Texts ==
    {<<"1">>, <<"2">>, NameTyped, NameShort, DescriptionOk}

\* the row of a seller whose draft awaits confirmation
ConfirmingRow ==
    [OnboardedRow EXCEPT
        !.current_flow = "shop_confirmation",
        !.user_data = [OnboardedRow.user_data EXCEPT !.shopCreation =
            [st |-> "set", name |-> <<NameOk>>, description |-> <<DescriptionOk>>,
             category |-> <<"General Store">>]]]

\* KeyA is new, has onboarded as a seller or is about to confirm a shop;
\* KeyB is about to confirm a shop of the same name
BotDbs ==
    {[k \in {KeyB} |-> ConfirmingRow],
     [k \in {KeyA, KeyB} |-> IF k = KeyA THEN OnboardedRow ELSE ConfirmingRow],
     [k \in {KeyA, KeyB} |-> ConfirmingRow]}

\* the events of a key: KeyA sends any text at any time, KeyB sends the one
\* "1" that confirms its draft
Events(k) ==
    CASE k = KeyA -> {Text(t) : t \in Texts}
      [] k = KeyB -> IF sessions[KeyB] = 0 THEN {Text(<<"1">>)} ELSE {}
      [] OTHER -> {Text(<<"1">>)}

InitBot ==
    /\ now = 0
    /\ sessions = [k \in ValidKeys |-> 0]
    /\ heap = [i \in {} |-> NewSession(KeyA, 0)]
    /\ dbUsers \in BotDbs
    /\ dbShops = <<>>
    /\ procs = [p \in Procs |-> IdleProc]
    /\ last = [op |-> "none", key |-> KeyA, t |-> 0, had |-> FALSE]
    /\ calls = 0
    /\ faults = 0
    /\ onboarded = {k \in DOMAIN dbUsers : dbUsers[k].community # "null"}

NextBot ==
    \/ \E p \in Procs, k \in AllKeys : \E m \in Events(k) : Quiet /\ Receive(p, k, m)
    \/ \E p \in Procs : TransportAnswers(p)
    \/ \E p \in Procs : StoreAnswers(p)
    \/ \E p \in Procs : TimerFires(p)

SpecBot == InitBot /\ [][NextBot]_vars

(***************************************************************************)
(* The bot driven from each step of the conversation: one user, whose row  *)
(* is the one a sync left at that step, sends FlowTurns texts.             *)
(***************************************************************************)
\* events of one run
FlowTurns == 2

DescriptionLong == Rep("d", MaxShopDescription + 1)
Back == <<"b","a","c","k">>
Cancel == <<"c","a","n","c","e","l">>

\* what the user sends: choices, global commands as typed, "back", "cancel",
\* texts no menu knows, descriptions
FlowTexts ==
    {<<"1">>, <<"2">>, <<"3">>, <<"0">>, <<" ","H","E","L","P"," ">>,
     <<"m","e","n","u">>, <<"S","t","a","r","t">>, Back, Cancel, <<"x">>, <<"1","1">>,
     <<"c","o","n","s","t","r","u","c","t","o","r">>, DescriptionOk, DescriptionLong}

\* the row processIncomingMessage upserts at the first contact
MainRow ==
    [DefaultRow EXCEPT !.user_data = ToJson(EmptyUserData),
                       !.current_flow = "main_menu"]
\* the row of a user who is choosing a community for a role
SelectingRow(role) ==
    [MainRow EXCEPT !.user_data.pendingUserType = role,
                    !.current_flow = "community_selection"]
\* the row of a user who onboarded as a buyer
BuyerRow ==
    [OnboardedRow EXCEPT !.user_data.pendingUserType = "buyer",
                         !.current_flow = "buyer_menu", !.user_type = "buyer"]
\* the row of a seller who went back to the main menu
ReturningRow == [OnboardedRow EXCEPT !.current_flow = "main_menu"]
\* the row of a seller at a step of the shop creation with the draft so far
DraftRow(flow, draft) ==
    [OnboardedRow EXCEPT !.current_flow = flow, !.user_data.shopCreation = draft]

FlowRows ==
    {MainRow, SelectingRow("seller"), SelectingRow("buyer"), OnboardedRow, BuyerRow,
     ReturningRow,
     DraftRow("shop_name_input", EmptyDraft),
     DraftRow("shop_description_input", [EmptyDraft EXCEPT !.name = <<NameOk>>]),
     DraftRow("shop_category_select",
              [EmptyDraft EXCEPT !.name = <<NameOk>>, !.description = <<DescriptionOk>>]),
     ConfirmingRow}

InitFlow ==
    /\ now = 0
    /\ sessions = [k \in ValidKeys |-> 0]
    /\ heap = [i \in {} |-> NewSession(KeyA, 0)]
    /\ dbUsers \in {[k \in {KeyA} |-> r] : r \in FlowRows}
    /\ dbShops = <<>>
    /\ procs = [p \in Procs |-> IdleProc]
    /\ last = [op |-> "none", key |-> KeyA, t |-> 0, had |-> FALSE]
    /\ calls = 0
    /\ faults = 0
    /\ onboarded = {k \in DOMAIN dbUsers : dbUsers[k].community # "null"}

NextFlow ==
    \/ \E p \in Procs, t \in FlowTexts :
          Quiet /\ calls < FlowTurns /\ Receive(p, KeyA, Text(t))
    \/ \E p \in Procs : TransportAnswers(p)
    \/ \E p \in Procs : StoreAnswers(p)
    \/ \E p \in Procs : TimerFires(p)

SpecFlow == InitFlow /\ [][NextFlow]_vars

(***************************************************************************)
(* The bot with the events of one user in flight together: the webhook     *)
(* calls processIncomingMessage for each event as it arrives and nothing   *)
(* orders the calls of one address key.                                    *)
(***************************************************************************)
\* events of one run
RaceTurns == 2

NameOther == <<"c","d">>
\* two names, and the '1' that confirms
RaceTexts == {NameOk, NameOther, <<"1">>}

\* the user is at the name entry or about to confirm a draft
RaceRows == {DraftRow("shop_name_input", EmptyDraft), ConfirmingRow}

\* one user, or two users of one community about to confirm the same name
RaceDbs ==
    {[k \in {KeyA} |-> r] : r \in RaceRows} \cup {[k \in ValidKeys |-> ConfirmingRow]}

\* the second user only confirms
RaceEvents(k) == IF k = KeyA THEN RaceTexts ELSE {<<"1">>}

InitRace ==
    /\ now = 0
    /\ sessions = [k \in ValidKeys |-> 0]
    /\ heap = [i \in {} |-> NewSession(KeyA, 0)]
    /\ dbUsers \in RaceDbs
    /\ dbShops = <<>>
    /\ procs = [p \in Procs |-> IdleProc]
    /\ last = [op |-> "none", key |-> KeyA, t |-> 0, had |-> FALSE]
    /\ calls = 0
    /\ faults = 0
    /\ onboarded = {k \in DOMAIN dbUsers : dbUsers[k].community # "null"}

NextRace ==
    \/ \E p \in Procs, k \in ValidKeys, t \in RaceTexts :
          /\ k \in DOMAIN dbUsers
          /\ t \in RaceEvents(k)
          /\ calls < RaceTurns
          /\ Receive(p, k, Text(t))
    \/ \E p \in Procs : TransportAnswers(p)
    \/ \E p \in Procs : StoreAnswers(p)
    \/ \E p \in Procs : TimerFires(p)

SpecRace == InitRace /\ [][NextRace]_vars

(***************************************************************************)
(* The bot over the life of an account: one user, new or back at the main  *)
(* menu, sends texts and selections, stays idle, and spends vouchers.      *)
(***************************************************************************)
\* events of one run
LifeTurns == 2

\* the amount of a voucher operation, and the operations
VoucherAmounts == {DefaultVoucherBalance}
VoucherOperations == {"add", "subtract", "set"}

\* UserService.updateVoucherBalance(phoneNumber, amount, operation)
updateVoucherBalance(D, k, amount, operation) ==
    IF k \notin DOMAIN D THEN D
    ELSE [D EXCEPT ![k].voucher_balance =
            CASE operation = "add" -> @ + amount
              [] operation = "subtract" -> IF @ - amount < 0 THEN 0 ELSE @ - amount
              [] OTHER -> IF amount < 0 THEN 0 ELSE amount]

\* a purchase or a top-up calls updateVoucherBalance between two events; the
\* balance stays within the default allocation
CallUpdateVoucherBalance(k, amount, operation) ==
    /\ Quiet
    /\ k \in DOMAIN dbUsers
    /\ dbUsers' = updateVoucherBalance(dbUsers, k, amount, operation)
    /\ dbUsers'[k].voucher_balance <= DefaultVoucherBalance
    /\ dbUsers' # dbUsers
    /\ procs' = Forget(procs)
    /\ heap' = Gc(heap, sessions, procs')
    /\ last' = Step("updateVoucherBalance", k)
    /\ UNCHANGED <<now, sessions, dbShops, calls, faults, onboarded>>

\* the user has no row, or is a seller back at the main menu
LifeDbs == {[k \in {} |-> ReturningRow], [k \in {KeyA} |-> ReturningRow]}

\* '1', and the selections of the interactive menus
LifeEvents ==
    {Text(<<"1">>), Interactive("select_bameka"), Interactive("seller_register")}

InitLife ==
    /\ now = 0
    /\ sessions = [k \in ValidKeys |-> 0]
    /\ heap = [i \in {} |-> NewSession(KeyA, 0)]
    /\ dbUsers \in LifeDbs
    /\ dbShops = <<>>
    /\ procs = [p \in Procs |-> IdleProc]
    /\ last = [op |-> "none", key |-> KeyA, t |-> 0, had |-> FALSE]
    /\ calls = 0
    /\ faults = 0
    /\ onboarded = {k \in DOMAIN dbUsers : dbUsers[k].community # "null"}

NextLife ==
    \/ \E p \in Procs, m \in LifeEvents :
          Quiet /\ calls < LifeTurns /\ Receive(p, KeyA, m)
    \/ \E p \in Procs : TransportAnswers(p)
    \/ \E p \in Procs : StoreAnswers(p)
    \/ \E a \in VoucherAmounts, o \in VoucherOperations :
          CallUpdateVoucherBalance(KeyA, a, o)
    \/ Tick

SpecLife == InitLife /\ [][NextLife]_vars

(***************************************************************************)
(* Claims about the session store.                                         *)
(***************************************************************************)
ValidKey(k) == Len(Trim(k)) >= MinPhoneLen

\* C1: for every valid address key k, createSession(k) followed immediately
\* by getSession(k) returns a session with phoneNumber = k, currentFlow =
\* 'main_menu', userType = null and empty userData, whatever entry the store
\* held for k before the create.
C1_CreateThenGet ==
    \A p \in Procs :
        LET c == procs[p]
        IN  ( /\ c.pc = "done"
              /\ c.op = "getSession"
              /\ ValidKey(c.key)
              /\ c.prev.op = "createSession"
              /\ c.prev.key = c.key )
            => /\ c.res.kind = "session"
               /\ c.res.val[1].phoneNumber = c.key
               /\ c.res.val[1].currentFlow = "main_menu"
               /\ c.res.val[1].userType = "null"
               /\ c.res.val[1].userData = EmptyUserData

\* a get right after a create that replaced an entry
C1_Witness ==
    \E p \in Procs :
        /\ procs[p].pc = "done"
        /\ procs[p].op = "getSession"
        /\ procs[p].prev.op = "createSession"
        /\ procs[p].prev.key = procs[p].key
        /\ procs[p].prev.had
        /\ procs[p].res.kind = "session"

\* C2: a session that has not been accessed for longer than the timeout is
\* absent on the next getSession for its key (null is returned and the entry
\* is gone), and it is not among the sessions getActiveSessions returns
\* after its sweep.
C2_IdleSessionAbsent ==
    \A p \in Procs :
        LET c == procs[p]
        IN  /\ (c.pc = "done" /\ c.op = "getSession" /\ c.hkexp)
                => (c.res.kind = "null" /\ sessions[c.key] = 0)
            /\ (c.pc = "done" /\ c.op = "getActiveSessions")
                => /\ c.res.kind = "list"
                   /\ c.res.refs \cap c.hexp = {}
                   /\ \A r \in c.hexp : \A k \in DOMAIN sessions : sessions[k] # r

\* getActiveSessions has returned the live sessions and left out an idle one
C2_Witness ==
    \E p \in Procs :
        /\ procs[p].pc = "done"
        /\ procs[p].op = "getActiveSessions"
        /\ procs[p].hexp # {}
        /\ procs[p].res.refs # {}

\* C3: for every live session and every partial passed to updateSession,
\* including one that supplies phoneNumber and createdAt, the stored
\* session's phoneNumber and createdAt are the same after the call as
\* before it.
C3_IdentityProtected ==
    \A p \in Procs :
        LET c == procs[p]
        IN  ( /\ c.op = "updateSession"
              /\ c.hlive
              /\ c.pc \in {"upd_sync", "done"} )
            => /\ sessions[c.key] # 0
               /\ heap[sessions[c.key]].phoneNumber = c.hval[1].phoneNumber
               /\ heap[sessions[c.key]].createdAt = c.hval[1].createdAt

\* an update that supplied phoneNumber and createdAt has returned, its other
\* fields applied
C3_Witness ==
    \E p \in Procs :
        /\ procs[p].pc = "done"
        /\ procs[p].op = "updateSession"
        /\ procs[p].hlive
        /\ procs[p].upd = UpdIdent
        /\ procs[p].hval[1].community # "BAMEKA"
        /\ heap[sessions[procs[p].key]].community = "BAMEKA"

\* the first sweep of C5: with sessions past the timeout it returns their
\* number
C5_FirstSweep(c) ==
    (c.pc = "done" /\ c.hnexp > 0) => (c.res.n > 0 /\ c.res.n = c.hnexp)

\* the second sweep of C5 returns at once with zero, nothing removed
C5_SecondSweep(c) ==
    c.pc = "done" /\ c.res.n = 0 /\ c.cleaned = 0

C10_Nothing(c) ==
    /\ c.res.kind = "null"
    /\ sessions[c.key] = 0
    /\ ~c.hsync

\* C10 as claimed: updateSession(k, partial) for a key with no live session
\* returns null without creating a session for k and without applying any
\* field of partial.
C10_UpdateMissing ==
    \A p \in Procs :
        LET c == procs[p]
        IN  ( /\ c.pc = "done"
              /\ c.op = "updateSession"
              /\ ValidKey(c.key)
              /\ ~c.hlive )
            => C10_Nothing(c)

\* C10 as amended: so it is when the key's entry has expired, or when the
\* key has no entry and the durable store has no row for it or fails; when
\* the key has no entry and the store has a row, the session is restored and
\* the partial applied to it.
C10_UpdateMissingNoRow ==
    \A p \in Procs :
        LET c == procs[p]
        IN  ( /\ c.pc = "done"
              /\ c.op = "updateSession"
              /\ ValidKey(c.key)
              /\ ~c.hlive )
            => IF c.hkexp \/ c.hrestore \in {"norow", "fail"}
               THEN C10_Nothing(c)
               ELSE /\ c.hrestore = "ok"
                    /\ c.res.kind = "session"
                    /\ sessions[c.key] = c.res.ref
                    /\ c.hsync

\* an update of an expired entry has returned null
C10_Witness ==
    \E p \in Procs :
        /\ procs[p].pc = "done"
        /\ procs[p].op = "updateSession"
        /\ procs[p].hkexp
        /\ procs[p].res.kind = "null"

\* the partials set no field in common
Disjoint(u, v) == \A f \in DOMAIN u : u[f] = <<>> \/ v[f] = <<>>

\* the session holds every field the partial sets
Holds(s, u) == \A f \in DOMAIN u : u[f] # <<>> => s[f] = u[f][1]

\* two updateSession calls for one key that were in flight together, with
\* disjoint partials
ConcurrentUpdates(p, q) ==
    /\ p # q
    /\ procs[p].op = "updateSession" /\ procs[q].op = "updateSession"
    /\ procs[p].hpeer = q /\ procs[q].hpeer = p
    /\ procs[p].key = procs[q].key
    /\ Disjoint(procs[p].upd, procs[q].upd)

\* the call was issued on a live session, or on no entry and restored one
GotSession(c) == c.hlive \/ c.hrestore = "ok"

\* both have returned a session and the stored session holds both partials
BothApplied(p, q) ==
    /\ procs[p].res.kind = "session"
    /\ procs[q].res.kind = "session"
    /\ sessions[procs[p].key] # 0
    /\ Holds(heap[sessions[procs[p].key]], procs[p].upd)
    /\ Holds(heap[sessions[procs[p].key]], procs[q].upd)

\* C4: two concurrent updateSession calls for the same key whose partials
\* set disjoint fields, each finding a session for the key, both return a
\* session, and after both have completed the stored session holds the
\* fields of both partials, for every interleaving of the two calls at their
\* awaits.
C4_DisjointUpdates ==
    \A p, q \in Procs :
        ( /\ ConcurrentUpdates(p, q)
          /\ procs[p].pc = "done" /\ procs[q].pc = "done"
          /\ GotSession(procs[p]) /\ GotSession(procs[q]) )
        => BothApplied(p, q)

\* C4 where it holds: both calls are issued on a live session in the Map, the
\* first with no call in flight and the second with only updates in flight.
C4_DisjointUpdatesLive ==
    \A p, q \in Procs :
        ( /\ ConcurrentUpdates(p, q)
          /\ procs[p].pc = "done" /\ procs[q].pc = "done"
          /\ procs[p].hlive /\ procs[q].hlive
          /\ procs[p].hothers = {} /\ procs[q].hothers = {"updateSession"} )
        => BothApplied(p, q)

\* both calls have returned, the second issued before the first had merged
C4_LiveWitness ==
    \E p, q \in Procs :
        /\ ConcurrentUpdates(p, q)
        /\ procs[p].pc = "done" /\ procs[q].pc = "done"
        /\ procs[p].hlive /\ procs[q].hlive
        /\ procs[p].hothers = {} /\ procs[q].hothers = {"updateSession"}
        /\ procs[q].hval[1].currentFlow = "main_menu"
        /\ procs[q].hval[1].userType = "null"
        /\ heap[sessions[procs[p].key]].currentFlow = "seller_menu"
        /\ heap[sessions[procs[p].key]].userType = "seller"

(***************************************************************************)
(* Claims about the conversation engine, under SpecBot.                    *)
(***************************************************************************)
\* an inbound text has been handled to the end in flow f
Handled(c, f) ==
    c.pc = "done" /\ c.op = "message" /\ c.kind = "text" /\ c.tflow = f
\* the session of the event's key as the event left it
SessionOf(c) == heap[sessions[c.key]]
\* the templates of the messages that reached the user in this turn
Templates(c) == {c.sent[i].t : i \in 1..Len(c.sent)}

\* a valid community token arrived in CommunitySelection with a role pending
SelectsCommunity(c) ==
    /\ Handled(c, "community_selection")
    /\ communityMap(c.msg) \notin {"undefined", "inherited"}
    /\ c.tsess[1].userData.pendingUserType \in {"seller", "buyer"}

\* C7: in CommunitySelection a valid community token ('1', '2', '3' or a
\* community name) sets the session's community to the mapped community and
\* its userType to the pending role, and moves currentFlow to seller_menu for
\* a pending seller and to buyer_menu for a pending buyer, whether or not the
\* durable store or the transport fails during the turn.
C7_CommunitySelected ==
    \A p \in Procs :
        LET c == procs[p]
            role == c.tsess[1].userData.pendingUserType
        IN  SelectsCommunity(c) =>
                /\ sessions[c.key] # 0
                /\ SessionOf(c).community = communityMap(c.msg)
                /\ SessionOf(c).userType = role
                /\ SessionOf(c).currentFlow =
                        (IF role = "seller" THEN "seller_menu" ELSE "buyer_menu")

\* a pending buyer chose community 2 in a turn whose lookup of the user failed
C7_Witness ==
    \E p \in Procs :
        /\ SelectsCommunity(procs[p])
        /\ procs[p].msg = <<"2">>
        /\ procs[p].tsess[1].userData.pendingUserType = "buyer"
        /\ procs[p].tsess[1].community = "undefined"
        /\ "could not save community" \in Templates(procs[p])
        /\ SessionOf(procs[p]).community = "BATOUFAM"
        /\ SessionOf(procs[p]).currentFlow = "buyer_menu"

\* the welcome messages of the turn that report n units of voucher v
Welcomes(c, n, v) ==
    {i \in 1..Len(c.sent) :
        c.sent[i].t = "welcome voucher" /\ c.sent[i].n = n /\ c.sent[i].s = v}

\* C8: when a user who has not completed onboarding before selects a
\* community, a welcome message reporting 100 units of the community's voucher
\* is sent in that turn; for a user who onboarded before none is sent.  (The
\* turns in which no call fails.)
C8_WelcomeVoucher ==
    \A p \in Procs :
        LET c == procs[p]
        IN  SelectsCommunity(c) /\ faults = 0 =>
                IF c.honb
                THEN "welcome voucher" \notin Templates(c)
                ELSE Welcomes(c, DefaultVoucherBalance,
                              getCommunityVoucher(communityMap(c.msg))) # {}

\* C8, the half the code keeps: a user who onboarded before gets no welcome
\* message when selecting a community.
C8_OnboardedNoWelcome ==
    \A p \in Procs :
        SelectsCommunity(procs[p]) /\ procs[p].honb =>
            "welcome voucher" \notin Templates(procs[p])

\* a user who onboarded before has selected a community again
C8_OnboardedWitness ==
    \E p \in Procs :
        /\ SelectsCommunity(procs[p]) /\ procs[p].honb
        /\ "seller menu" \in Templates(procs[p])

\* the name of the turn is one ShopNameInput has to reject
InvalidName(c) ==
    \/ Len(Trim(c.msg)) < MinShopName
    \/ Len(Trim(c.msg)) > MaxShopName
    \/ c.loc.nameTaken

\* C9: in ShopNameInput a name whose trimmed length is below 2 or above 50, or
\* that is taken in the user's community, is rejected: a validation message is
\* sent, currentFlow stays shop_name_input and the draft's name is not set to
\* the rejected value.  (The turns in which no call fails.)
C9_InvalidNameRejected ==
    \A p \in Procs :
        LET c == procs[p]
        IN  /\ Handled(c, "shop_name_input")
            /\ c.msg \notin GlobalCommands \cup {<<"c","a","n","c","e","l">>}
            /\ InvalidName(c)
            /\ faults = 0
            => /\ Templates(c) \cap {"name too short", "name too long", "name taken"} # {}
               /\ SessionOf(c).currentFlow = "shop_name_input"
               /\ SessionOf(c).userData.shopCreation.name # <<Trim(c.msg)>>

\* C9, the part the code keeps: the validation message is sent.
C9_ValidationSent ==
    \A p \in Procs :
        LET c == procs[p]
        IN  /\ Handled(c, "shop_name_input")
            /\ c.msg \notin GlobalCommands \cup {<<"c","a","n","c","e","l">>}
            /\ InvalidName(c)
            /\ faults = 0
            => Templates(c) \cap {"name too short", "name too long", "name taken"} # {}

\* a one-character name has been handled in ShopNameInput
C9_ShortNameWitness ==
    \E p \in Procs :
        /\ Handled(procs[p], "shop_name_input")
        /\ procs[p].msg = NameShort
        /\ faults = 0
        /\ "name too short" \in Templates(procs[p])

\* the draft of a turn that confirms it with "1"
Confirms(c) ==
    /\ Handled(c, "shop_confirmation")
    /\ c.msg = <<"1">>
    /\ c.tsess[1].userData.shopCreation.st = "set"
\* the shops of owner k
ShopsOf(k) == {i \in 1..Len(dbShops) : dbShops[i].owner_phone = k}
\* shop i is the draft of c
MatchesDraft(i, c) ==
    LET d == c.tsess[1].userData.shopCreation
    IN  /\ <<dbShops[i].name>> = d.name
        /\ <<dbShops[i].description>> = d.description
        /\ dbShops[i].category = d.category
        /\ dbShops[i].owner_phone = c.key
        /\ dbShops[i].community = c.tsess[1].community
\* exactly one shop is persisted for the key of c, and it is the draft
OneShopOfDraft(c) ==
    /\ Cardinality(ShopsOf(c.key)) = 1
    /\ \A i \in ShopsOf(c.key) : MatchesDraft(i, c)

\* C6 as stated: a draft built through the name, description and category
\* steps and confirmed with "1" produces exactly one persisted shop whose
\* name, description and category are the draft's, whose owner is the address
\* key and whose community is the session's.  (The turns in which no call
\* fails.)
C6_DraftRoundTrip ==
    \A p \in Procs :
        Confirms(procs[p]) /\ faults = 0 => OneShopOfDraft(procs[p])

\* C6 amended: the same, for the confirmations the registry accepts (the
\* owner has no shop, the name is free in the community when the draft is
\* confirmed, and the insert succeeds).
C6_AcceptedDraftRoundTrip ==
    \A p \in Procs :
        Confirms(procs[p]) /\ procs[p].loc.newShop # 0 => OneShopOfDraft(procs[p])

\* a draft built in this run through the three steps has been confirmed and
\* persisted, and the user has been told
C6_Witness ==
    \E p \in Procs :
        /\ Confirms(procs[p])
        /\ procs[p].key = KeyA
        /\ procs[p].loc.newShop # 0
        /\ calls = MaxTurns
        /\ "shop created" \in Templates(procs[p])
        /\ OneShopOfDraft(procs[p])

(***************************************************************************)
(* Further claims about the session store, under SpecStore.                *)
(***************************************************************************)
\* a getSession that missed in memory has returned
Restoring(c) == c.pc = "done" /\ c.op = "getSession" /\ c.hrestore # "none"

\* C11: when getSession misses in memory and the lookup in the durable store
\* fails, getSession returns null without throwing and leaves the session Map
\* as it was; when the lookup finds a user record, the session restored from
\* it is in the Map under that key and is what getSession returns.
C11_RestoreBestEffort ==
    \A p \in Procs :
        LET c == procs[p]
        IN  Restoring(c) =>
              /\ c.hrestore = "fail" => (c.res.kind = "null" /\ sessions = c.hmap)
              /\ c.hrestore = "ok" =>
                    /\ c.res.kind = "session"
                    /\ sessions[c.key] = c.res.ref
                    /\ \A k \in DOMAIN sessions \ {c.key} : sessions[k] = c.hmap[k]
                    /\ c.res.val[1].phoneNumber = c.key
                    /\ c.res.val[1].currentFlow = dbUsers[c.key].current_flow
                    /\ c.res.val[1].lastActivity = now

\* a lookup has failed for a key that has a row
C11_FailWitness ==
    \E p \in Procs :
        /\ Restoring(procs[p])
        /\ procs[p].hrestore = "fail"
        /\ procs[p].key \in DOMAIN dbUsers
        /\ procs[p].res.kind = "null"

\* a sweep: the keys past the timeout when it was called, the keys whose sync
\* it has attempted
SweepExpired(c) == {k \in DOMAIN c.hmap : c.hmap[k] # 0 /\ c.hmap[k] \in c.hexp}
SweepSynced(c) == {c.hlog[i].key : i \in 1..Len(c.hlog)}

\* C12: cleanExpiredSessions attempts one sync to the durable store for each
\* expired session before removing it, removes the session even when that
\* sync fails, never retries the sync, leaves every session that is not
\* expired in place, and returns exactly the number of sessions it removed.
C12_SweepSyncsOnce ==
    \A p \in Procs :
        LET c == procs[p]
        IN  c.op = "cleanExpiredSessions" =>
              \* the sync in flight is the first of an expired entry still there
              /\ c.pc = "sweep_sync" =>
                    /\ c.key \in SweepExpired(c) \ SweepSynced(c)
                    /\ sessions[c.key] = c.hmap[c.key]
              /\ Cardinality(SweepSynced(c)) = Len(c.hlog)
              /\ \A k \in SweepSynced(c) : sessions[k] = 0
              /\ \A k \in DOMAIN c.hmap \ SweepExpired(c) : sessions[k] = c.hmap[k]
              /\ c.pc = "done" =>
                    /\ SweepSynced(c) = SweepExpired(c)
                    /\ c.res.kind = "count"
                    /\ c.res.n = Cardinality({k \in DOMAIN c.hmap :
                                                c.hmap[k] # 0 /\ sessions[k] = 0})

\* a sweep has removed a session whose sync failed and left a live one
C12_Witness ==
    \E p \in Procs :
        /\ procs[p].op = "cleanExpiredSessions"
        /\ procs[p].pc = "done"
        /\ \E i \in 1..Len(procs[p].hlog) : ~procs[p].hlog[i].ok
        /\ procs[p].res.n = 1
        /\ \E k \in DOMAIN sessions : sessions[k] # 0

\* a getSession on a stored session has returned
GetsStored(c) == c.pc = "done" /\ c.op = "getSession" /\ Len(c.hval) > 0

\* C13, the call: getSession(k) on a stored session returns it with
\* lastActivity set to the current time exactly when the time since
\* lastActivity is at most the timeout; otherwise it deletes the entry and
\* returns null.
C13_GetTouches ==
    \A p \in Procs :
        LET c == procs[p]
        IN  GetsStored(c) =>
              IF now - c.hval[1].lastActivity <= SessionTimeout
              THEN /\ c.res.kind = "session"
                   /\ c.res.ref = c.hmap[c.key]
                   /\ sessions[c.key] = c.hmap[c.key]
                   /\ c.res.val[1] = [c.hval[1] EXCEPT !.lastActivity = now]
              ELSE c.res.kind = "null" /\ sessions[c.key] = 0

\* C13, the steps: the lastActivity of a session object never decreases, and
\* the session of a key is never older than the one it replaces.
C13_NeverDecreases ==
    /\ \A i \in DOMAIN heap \cap DOMAIN heap' :
            heap'[i].phoneNumber = heap[i].phoneNumber
                => heap'[i].lastActivity >= heap[i].lastActivity
    /\ \A k \in DOMAIN sessions :
            sessions[k] # 0 /\ sessions'[k] # 0
                => heap'[sessions'[k]].lastActivity >= heap[sessions[k]].lastActivity

\* C13: getSession on a stored session touches it when it has been idle for
\* at most the timeout and deletes it otherwise, and lastActivity never
\* decreases.
C13_LiveAtTimeout == [](C13_GetTouches) /\ [][C13_NeverDecreases]_vars

\* a session idle for exactly the timeout has been returned and touched
C13_Witness ==
    \E p \in Procs :
        /\ GetsStored(procs[p])
        /\ now - procs[p].hval[1].lastActivity = SessionTimeout
        /\ procs[p].res.kind = "session"
        /\ procs[p].res.val[1].lastActivity = now

(***************************************************************************)
(* Claims about the steps of the conversation, under SpecFlow.             *)
(***************************************************************************)
\* an inbound text has been handled to the end, in whatever flow
HandledText(c) ==
    c.pc = "done" /\ c.op = "message" /\ c.kind = "text" /\ c.tflow # "none"
\* the session before the turn
Before(c) == c.tsess[1]
\* the turn left the session's role, community and userData as they were
SameUser(c) ==
    /\ SessionOf(c).userType = Before(c).userType
    /\ SessionOf(c).community = Before(c).community
    /\ SessionOf(c).userData = Before(c).userData

\* C14: in every currentFlow, a text equal (after lower-casing and trimming)
\* to 'help', 'menu', 'start' or '0' sets currentFlow to main_menu and is
\* never passed to the handler of the flow: nothing of it is stored and the
\* only reply is the main menu (or the apology when the transport fails).
C14_GlobalCommandFirst ==
    \A p \in Procs :
        LET c == procs[p]
        IN  HandledText(c) /\ Trim(ToLowerCase(c.raw)) \in GlobalCommands =>
              /\ SessionOf(c).currentFlow = "main_menu"
              /\ SameUser(c)
              /\ Templates(c) \subseteq {"main menu", "something went wrong"}

\* ' HELP ' has arrived in ShopDescriptionInput
C14_Witness ==
    \E p \in Procs :
        /\ HandledText(procs[p])
        /\ procs[p].raw = <<" ","H","E","L","P"," ">>
        /\ procs[p].tflow = "shop_description_input"
        /\ SessionOf(procs[p]).currentFlow = "main_menu"
        /\ SessionOf(procs[p]).userData.shopCreation.description = <<>>
        /\ "main menu" \in Templates(procs[p])

\* C16: in MainMenu '1' moves currentFlow to community_selection with
\* pendingUserType seller and '2' does the same with pendingUserType buyer;
\* community, userType and the rest of userData are unchanged by that turn.
C16_RolePending ==
    \A p \in Procs :
        LET c == procs[p]
            role == IF c.msg = <<"1">> THEN "seller" ELSE "buyer"
        IN  Handled(c, "main_menu") /\ c.msg \in {<<"1">>, <<"2">>} =>
              /\ SessionOf(c).currentFlow = "community_selection"
              /\ SessionOf(c).userData =
                    [Before(c).userData EXCEPT !.pendingUserType = role]
              /\ SessionOf(c).userType = Before(c).userType
              /\ SessionOf(c).community = Before(c).community

\* '2' has arrived in MainMenu from a user whose pending role was seller
C16_Witness ==
    \E p \in Procs :
        /\ Handled(procs[p], "main_menu")
        /\ procs[p].msg = <<"2">>
        /\ Before(procs[p]).userData.pendingUserType = "seller"
        /\ SessionOf(procs[p]).userData.pendingUserType = "buyer"
        /\ SessionOf(procs[p]).currentFlow = "community_selection"

\* C17: in SellerMenu '1' moves currentFlow to shop_name_input with an empty
\* shop draft when the user owns no shop; when the user owns a shop,
\* currentFlow stays seller_menu and no draft is created.  (The turns in
\* which no call fails.)
C17_ShopCreationStarts ==
    \A p \in Procs :
        LET c == procs[p]
        IN  Handled(c, "seller_menu") /\ c.msg = <<"1">> /\ faults = 0 =>
              /\ SessionOf(c).userType = Before(c).userType
              /\ SessionOf(c).community = Before(c).community
              /\ IF ShopsOf(c.key) = {}
                 THEN /\ SessionOf(c).currentFlow = "shop_name_input"
                      /\ SessionOf(c).userData =
                            [Before(c).userData EXCEPT !.shopCreation = EmptyDraft]
                      /\ "step 1: shop name" \in Templates(c)
                 ELSE /\ SessionOf(c).currentFlow = "seller_menu"
                      /\ SessionOf(c).userData = Before(c).userData
                      /\ "you already have a shop" \in Templates(c)

\* the owner of a shop has sent '1' in SellerMenu
C17_Witness ==
    \E p \in Procs :
        /\ Handled(procs[p], "seller_menu")
        /\ procs[p].msg = <<"1">>
        /\ faults = 0
        /\ ShopsOf(procs[p].key) # {}
        /\ SessionOf(procs[p]).currentFlow = "seller_menu"

\* the texts the handler of flow f knows
Choices(f) ==
    CASE f = "main_menu" -> {<<"1">>, <<"2">>}
      [] f = "community_selection" ->
            {<<"0">>, <<"1">>, <<"2">>, <<"3">>, <<"b","a","m","e","k","a">>,
             <<"b","a","t","o","u","f","a","m">>, <<"f","o","n","d","j","o">>,
             <<"f","o","n","d","j","o","m","e","k","w","e","t">>}
      [] f \in {"seller_menu", "buyer_menu"} ->
            {<<"0">>, <<"1">>, <<"2">>, <<"3">>, <<"4">>}
      [] f = "shop_confirmation" -> {<<"1">>, <<"2">>, <<"3">>, Cancel}
      [] OTHER -> {}
\* the validation reply of flow f
ValidationReply(f) ==
    CASE f = "main_menu" -> "invalid main option"
      [] f = "community_selection" -> "invalid community"
      [] f = "seller_menu" -> "invalid seller option"
      [] f = "buyer_menu" -> "invalid buyer option"
      [] f = "shop_confirmation" -> "invalid choice"
      [] OTHER -> "none"
\* a text the menu of its flow does not know has been handled, no call failing
Unrecognized(c) ==
    /\ HandledText(c)
    /\ c.tflow \in {"main_menu", "community_selection", "seller_menu", "buyer_menu",
                    "shop_confirmation"}
    /\ c.msg \notin GlobalCommands \cup Choices(c.tflow)
    /\ faults = 0

\* C15: unrecognized input in MainMenu, CommunitySelection, SellerMenu,
\* BuyerMenu or ShopConfirmation sends a validation reply and leaves the
\* session's currentFlow, userType, community and userData unchanged.
C15_UnrecognizedReprompts ==
    \A p \in Procs :
        LET c == procs[p]
        IN  Unrecognized(c) =>
              /\ ValidationReply(c.tflow) \in Templates(c)
              /\ SessionOf(c).currentFlow = c.tflow
              /\ SameUser(c)

\* C15, what the code keeps: the session is left as it was by every
\* unrecognized input, and the validation reply is sent for every one that
\* is not the name of an inherited property of communityMap.
C15_UnrecognizedFrame ==
    \A p \in Procs :
        LET c == procs[p]
        IN  Unrecognized(c) =>
              /\ SessionOf(c).currentFlow = c.tflow
              /\ SameUser(c)
              /\ communityMap(c.msg) # "inherited" \/ c.tflow # "community_selection"
                    => ValidationReply(c.tflow) \in Templates(c)

\* a text no menu knows has arrived in ShopConfirmation
C15_FrameWitness ==
    \E p \in Procs :
        /\ Unrecognized(procs[p])
        /\ procs[p].tflow = "shop_confirmation"
        /\ "invalid choice" \in Templates(procs[p])

\* a text has been handled by the description step, no call failing
Describes(c) ==
    /\ Handled(c, "shop_description_input")
    /\ c.msg \notin GlobalCommands \cup {Cancel}
    /\ faults = 0
DraftOf(s) == s.userData.shopCreation

\* C18: in ShopDescriptionInput a description whose trimmed length is below
\* 10 or above 200 is rejected: currentFlow stays shop_description_input and
\* the draft's description is not set; a description with length in
\* [10, 200] is stored in the draft and currentFlow becomes
\* shop_category_select.
C18_DescriptionChecked ==
    \A p \in Procs :
        LET c == procs[p]
            n == Len(Trim(c.msg))
        IN  Describes(c) /\ c.msg # Back =>
              IF n >= MinShopDescription /\ n <= MaxShopDescription
              THEN /\ SessionOf(c).currentFlow = "shop_category_select"
                   /\ DraftOf(SessionOf(c)) =
                        [DraftOf(Before(c)) EXCEPT !.description = <<Trim(c.msg)>>]
              ELSE /\ SessionOf(c).currentFlow = "shop_description_input"
                   /\ DraftOf(SessionOf(c)) = DraftOf(Before(c))

\* C18, what the code keeps: a description with length in [10, 200] is stored
\* and the flow moves on.
C18_ValidStored ==
    \A p \in Procs :
        LET c == procs[p]
            n == Len(Trim(c.msg))
        IN  Describes(c) /\ n >= MinShopDescription /\ n <= MaxShopDescription =>
              /\ SessionOf(c).currentFlow = "shop_category_select"
              /\ DraftOf(SessionOf(c)) =
                    [DraftOf(Before(c)) EXCEPT !.description = <<Trim(c.msg)>>]

\* a description of ten characters has been stored
C18_ValidWitness ==
    \E p \in Procs :
        /\ Describes(procs[p])
        /\ procs[p].msg = DescriptionOk
        /\ DraftOf(SessionOf(procs[p])).description = <<DescriptionOk>>
        /\ DraftOf(SessionOf(procs[p])).name = <<NameOk>>

\* C19: in ShopDescriptionInput 'back' moves currentFlow to shop_name_input
\* and leaves the draft unchanged: the name entered before is kept and the
\* text 'back' is not stored as the description.
C19_BackToName ==
    \A p \in Procs :
        LET c == procs[p]
        IN  Describes(c) /\ c.msg = Back =>
              /\ SessionOf(c).currentFlow = "shop_name_input"
              /\ DraftOf(SessionOf(c)) = DraftOf(Before(c))

\* C19, what the code keeps: the name entered before is kept and the user is
\* told the conversation is back at the name.
C19_NameKept ==
    \A p \in Procs :
        LET c == procs[p]
        IN  Describes(c) /\ c.msg = Back =>
              /\ DraftOf(SessionOf(c)).name = DraftOf(Before(c)).name
              /\ "back to shop name" \in Templates(c)

\* 'back' has arrived in ShopDescriptionInput with a name in the draft
C19_NameWitness ==
    \E p \in Procs :
        /\ Describes(procs[p])
        /\ procs[p].msg = Back
        /\ DraftOf(Before(procs[p])).name = <<NameOk>>

\* a text has been handled by the category step, no call failing
Categorizes(c) ==
    /\ Handled(c, "shop_category_select")
    /\ c.msg \notin GlobalCommands \cup {Cancel, Back}
    /\ faults = 0
\* the text is a number from 1 to the length of the category list
CategoryNumber(m) ==
    /\ Len(m) > 0
    /\ \A i \in 1..Len(m) : IsDigit(m[i])
    /\ DecValue(m) >= 1
    /\ DecValue(m) <= Len(getShopCategories)

\* C20: in ShopCategorySelect a number n with 1 <= n <= 10 stores the n-th
\* entry of the fixed category list in the draft and moves currentFlow to
\* shop_confirmation; out-of-range or non-numeric input re-prompts with the
\* list, leaves currentFlow at shop_category_select and stores no category.
C20_CategoryChosen ==
    \A p \in Procs :
        LET c == procs[p]
        IN  Categorizes(c) =>
              IF CategoryNumber(c.msg)
              THEN /\ SessionOf(c).currentFlow = "shop_confirmation"
                   /\ DraftOf(SessionOf(c)) =
                        [DraftOf(Before(c)) EXCEPT
                            !.category = <<getShopCategories[DecValue(c.msg)]>>]
              ELSE /\ "invalid category" \in Templates(c)
                   /\ SessionOf(c).currentFlow = "shop_category_select"
                   /\ DraftOf(SessionOf(c)) = DraftOf(Before(c))

\* C20, what the code keeps: a number from 1 to 10 stores the entry of that
\* position and moves to the confirmation; any other input is answered with
\* the list.
C20_NumberStored ==
    \A p \in Procs :
        LET c == procs[p]
        IN  Categorizes(c) =>
              IF CategoryNumber(c.msg)
              THEN /\ SessionOf(c).currentFlow = "shop_confirmation"
                   /\ DraftOf(SessionOf(c)) =
                        [DraftOf(Before(c)) EXCEPT
                            !.category = <<getShopCategories[DecValue(c.msg)]>>]
              ELSE "invalid category" \in Templates(c)

\* '3' has stored the third category
C20_NumberWitness ==
    \E p \in Procs :
        /\ Categorizes(procs[p])
        /\ procs[p].msg = <<"3">>
        /\ DraftOf(SessionOf(procs[p])).category = <<"Clothing & Fashion">>

\* the steps of the shop creation
ShopFlows ==
    {"shop_name_input", "shop_description_input", "shop_category_select",
     "shop_confirmation"}
\* shopCreation is missing from userData or undefined in it
NoDraftIn(s) == DraftOf(s).st \in {"absent", "undefined"}
\* '1' has confirmed the draft and createShop has returned the new shop: the
\* row is inserted and the owner's row carries its id
Created(c) ==
    /\ Confirms(c)
    /\ c.loc.newShop # 0
    /\ c.key \in DOMAIN dbUsers
    /\ dbUsers[c.key].shop_id = c.loc.newShop

\* C21: in ShopConfirmation, '1' with a successful shop creation moves
\* currentFlow to seller_menu, removes the draft from userData and records
\* the new shop's id in the session; nothing else of the session changes,
\* whether or not a later call of the turn fails.
C21_CreatedToSellerMenu ==
    \A p \in Procs :
        LET c == procs[p]
        IN  Created(c) =>
              /\ SessionOf(c).currentFlow = "seller_menu"
              /\ NoDraftIn(SessionOf(c))
              /\ SessionOf(c).userData.shopId = c.loc.newShop
              /\ ToJson(SessionOf(c).userData) =
                    [Before(c).userData EXCEPT !.shopCreation = NoDraft,
                                               !.shopId = c.loc.newShop]
              /\ SessionOf(c).userType = Before(c).userType
              /\ SessionOf(c).community = Before(c).community

\* a confirmed draft has become the first shop and the user has been told
C21_Witness ==
    \E p \in Procs :
        /\ Created(procs[p])
        /\ procs[p].loc.newShop = 1
        /\ dbShops[1].name = NameOk
        /\ "shop created" \in Templates(procs[p])
        /\ SessionOf(procs[p]).userData.shopId = 1
        /\ SessionOf(procs[p]).currentFlow = "seller_menu"


\* '2' has been handled in ShopConfirmation, no call failing
GoesBack(c) ==
    Handled(c, "shop_confirmation") /\ c.msg = <<"2">> /\ faults = 0

\* C22: in ShopConfirmation, '2' moves currentFlow to shop_category_select
\* and keeps the draft, with no other side effect in that turn than the
\* back-to-category prompt: no cancellation message is sent and no shop is
\* created.
C22_BackToCategory ==
    \A p \in Procs :
        LET c == procs[p]
        IN  GoesBack(c) =>
              /\ SessionOf(c).currentFlow = "shop_category_select"
              /\ SameUser(c)
              /\ Templates(c) = {"back to category"}
              /\ c.loc.newShop = 0

\* C22, what the code keeps: currentFlow moves to shop_category_select, the
\* draft is kept, the prompt is sent and no shop is created.
C22_BackKeepsDraft ==
    \A p \in Procs :
        LET c == procs[p]
        IN  GoesBack(c) =>
              /\ SessionOf(c).currentFlow = "shop_category_select"
              /\ SameUser(c)
              /\ "back to category" \in Templates(c)
              /\ c.loc.newShop = 0 /\ dbShops = <<>>

\* '2' has sent a complete draft back to the category step
C22_KeepsWitness ==
    \E p \in Procs :
        /\ GoesBack(procs[p])
        /\ DraftOf(SessionOf(procs[p])).category = <<"General Store">>
        /\ SessionOf(procs[p]).currentFlow = "shop_category_select"

\* the shop creation has been cancelled, no call failing
Cancels(c) ==
    /\ HandledText(c)
    /\ c.tflow \in ShopFlows
    /\ c.msg = Cancel \/ (c.tflow = "shop_confirmation" /\ c.msg = <<"3">>)
    /\ faults = 0

\* C23: cancelling shop creation, by 'cancel' in any shop-creation step or by
\* '3' in ShopConfirmation, moves currentFlow to seller_menu and discards the
\* draft, so the next message is handled by the seller menu.
C23_CancelDiscards ==
    \A p \in Procs :
        LET c == procs[p]
        IN  Cancels(c) =>
              /\ SessionOf(c).currentFlow = "seller_menu"
              /\ NoDraftIn(SessionOf(c))

\* C23, what the code keeps: the user is told the creation is cancelled and
\* is shown the seller menu, and no shop is created.
C23_CancelAnswered ==
    \A p \in Procs :
        LET c == procs[p]
        IN  Cancels(c) =>
              /\ Templates(c) = {"shop creation cancelled", "seller menu"}
              /\ c.loc.newShop = 0

\* 'cancel' has arrived in ShopNameInput
C23_AnsweredWitness ==
    \E p \in Procs :
        /\ Cancels(procs[p])
        /\ procs[p].msg = Cancel
        /\ procs[p].tflow = "shop_name_input"
        /\ "seller menu" \in Templates(procs[p])


(***************************************************************************)
(* Further claims about the conversation engine, under SpecBot.            *)
(***************************************************************************)
\* the messages with which ShopService.createShop refuses a shop
Refusals ==
    {"User already has a shop", "Shop name is already taken in this community"}
\* '1' has confirmed a draft and the registry has refused it, no call failing
Rejected(c) ==
    /\ Confirms(c)
    /\ c.loc.exc \in Refusals
    /\ faults = 0
\* the registry's message reached the user as it was thrown
ToldWhy(c) ==
    \E i \in 1..Len(c.sent) : c.sent[i].t = "error.message" /\ c.sent[i].s = c.loc.exc

\* C24: when the shop registry rejects the commit at confirmation (name
\* taken, or the owner already has a shop), the registry's message is sent to
\* the user, no shop is persisted, and the session returns to the seller
\* menu (currentFlow = seller_menu), not to name entry.
C24_RejectedToSellerMenu ==
    \A p \in Procs :
        LET c == procs[p]
        IN  Rejected(c) =>
              /\ ToldWhy(c)
              /\ c.loc.newShop = 0
              /\ SessionOf(c).currentFlow = "seller_menu"

\* C24, what the code keeps: the registry's message is sent as thrown, then
\* the seller menu; no shop is persisted for the draft and the session is
\* not sent back to the name entry.
C24_RejectionReported ==
    \A p \in Procs :
        LET c == procs[p]
        IN  Rejected(c) =>
              /\ ToldWhy(c)
              /\ "seller menu" \in Templates(c)
              /\ c.loc.newShop = 0
              /\ \A i \in ShopsOf(c.key) : c.loc.exc = "User already has a shop"
              /\ SessionOf(c).currentFlow # "shop_name_input"
              /\ SameUser(c)

\* the name KeyA confirms was taken by KeyB's shop in the same community
C24_ReportedWitness ==
    \E p \in Procs :
        /\ Rejected(procs[p])
        /\ procs[p].key = KeyA
        /\ procs[p].loc.exc = "Shop name is already taken in this community"
        /\ ShopsOf(KeyB) # {} /\ ShopsOf(KeyA) = {}
        /\ ToldWhy(procs[p])


(***************************************************************************)
(* Invariants of the sessions, under SpecFlow.                             *)
(***************************************************************************)
\* the sessions in the Map
Live == {heap[sessions[k]] : k \in {x \in DOMAIN sessions : sessions[x] # 0}}
\* the shop-creation steps from f on
From(f) ==
    CASE f = "shop_description_input" -> ShopFlows \ {"shop_name_input"}
      [] f = "shop_category_select" -> {"shop_category_select", "shop_confirmation"}
      [] f = "shop_confirmation" -> {"shop_confirmation"}
\* a field of the draft holds a text of a length from lo to hi
TextWithin(field, lo, hi) ==
    Len(field) = 1 /\ Len(field[1]) >= lo /\ Len(field[1]) <= hi
\* the draft of session s is populated for the step s is at
Populated(s) ==
    LET d == DraftOf(s)
    IN  /\ d.st = "set"
        /\ s.currentFlow \in From("shop_description_input") =>
                TextWithin(d.name, MinShopName, MaxShopName)
        /\ s.currentFlow \in From("shop_category_select") =>
                TextWithin(d.description, MinShopDescription, MaxShopDescription)
        /\ s.currentFlow \in From("shop_confirmation") =>
                \E n \in 1..Len(getShopCategories) : d.category = <<getShopCategories[n]>>

\* C25: in every reachable state, a session whose currentFlow is a
\* shop-creation sub-state has a non-null draft populated for the sub-state
\* reached: a valid name from shop_description_input on, a valid description
\* from shop_category_select on, and a category from the fixed list in
\* shop_confirmation.
C25_DraftPopulated ==
    \A s \in Live : s.currentFlow \in ShopFlows => Populated(s)

\* C25, what the code keeps: in a shop-creation sub-state the draft is an
\* object, it has a name from shop_description_input on and a description
\* from shop_category_select on, valid or not.
C25_DraftPresent ==
    \A s \in Live :
        s.currentFlow \in ShopFlows =>
            /\ DraftOf(s).st = "set"
            /\ s.currentFlow \in From("shop_description_input") =>
                    Len(DraftOf(s).name) = 1
            /\ s.currentFlow \in From("shop_category_select") =>
                    Len(DraftOf(s).description) = 1

\* a draft completed in the run awaits confirmation
C25_PresentWitness ==
    \E s \in Live, p \in Procs :
        /\ Categorizes(procs[p])
        /\ s.currentFlow = "shop_confirmation"
        /\ Populated(s)

\* C26: a shop draft is present in userData only while currentFlow is one of
\* the shop-creation sub-states: in every reachable state with currentFlow
\* outside them, userData.shopCreation is absent.
C26_DraftOnlyInShopFlows ==
    \A s \in Live : s.currentFlow \notin ShopFlows => NoDraftIn(s)

\* C26, what the code keeps: the turn that creates the shop leaves no draft
\* behind, and a session that has not started a shop creation has none.
C26_NoDraftAfterCreation ==
    \A p \in Procs :
        /\ Created(procs[p]) => NoDraftIn(SessionOf(procs[p]))
        /\ HandledText(procs[p]) /\ NoDraftIn(Before(procs[p]))
              /\ SessionOf(procs[p]).currentFlow \notin ShopFlows
              => NoDraftIn(SessionOf(procs[p]))

\* a user without a draft has been through a turn outside the shop creation
C26_NoDraftWitness ==
    \E p \in Procs :
        /\ HandledText(procs[p])
        /\ NoDraftIn(Before(procs[p]))
        /\ procs[p].tflow = "seller_menu"
        /\ SessionOf(procs[p]).currentFlow = "main_menu"


\* the keys of COMMUNITIES
Communities == {"BAMEKA", "BATOUFAM", "FONDJOMEKWET"}

\* C27: once a session's community has been set during onboarding it never
\* changes for the rest of the conversation: no inbound event takes a
\* session from community c to a community other than c.
C27_CommunityFixed ==
    \A p \in Procs :
        LET c == procs[p]
        IN  HandledText(c) /\ Before(c).community \in Communities =>
              SessionOf(c).community = Before(c).community

\* C27, what the code keeps: the community of an onboarded user changes only
\* in a turn of CommunitySelection that names a community.
C27_OnlyBySelection ==
    \A p \in Procs :
        LET c == procs[p]
        IN  /\ HandledText(c)
            /\ Before(c).community \in Communities
            /\ ~(c.tflow = "community_selection" /\ communityMap(c.msg) \in Communities)
            => SessionOf(c).community = Before(c).community

\* an onboarded seller has gone from the main menu to the selection
C27_SelectionWitness ==
    \E p \in Procs :
        /\ HandledText(procs[p])
        /\ Before(procs[p]).community = "BAMEKA"
        /\ procs[p].tflow = "main_menu"
        /\ SessionOf(procs[p]).currentFlow = "community_selection"
        /\ SessionOf(procs[p]).community = "BAMEKA"


(***************************************************************************)
(* Claims about events in flight together, under SpecRace.                 *)
(***************************************************************************)
\* the event was dispatched on a flow and has asked for another
Moves(c) ==
    /\ c.op = "message" /\ c.pc \in {"io", "done"}
    /\ c.tflow # "none"
    /\ c.upd.currentFlow # <<>>
    /\ c.upd.currentFlow # <<c.tflow>>
\* two events of one key are under way together (an event that is done is
\* forgotten by the next step), each moving the session to another flow
MoveTogether(p, q) ==
    /\ p # q
    /\ procs[p].key = procs[q].key
    /\ Moves(procs[p]) /\ Moves(procs[q])

\* C28: two inbound events for the same address key that are in flight at
\* the same time do not interleave their read-modify-write sequences: the
\* second is dispatched on the currentFlow written by the first, never on
\* the flow the first is still leaving (two quick messages sent in
\* ShopNameInput are not both handled as shop names).  (The events that hold
\* the one session object of the Map, no call failing.)
C28_Serialized ==
    \A p, q \in Procs :
        MoveTogether(p, q) /\ procs[p].ref = procs[q].ref /\ faults = 0
            => procs[p].tflow # procs[q].tflow

(***************************************************************************)
(* Claims about failing calls, under SpecFlow and SpecBot.                 *)
(***************************************************************************)
\* what a failing call of the durable store or of the transport throws
CallFailures ==
    {"WhatsAppServiceError", "Error", "Failed to fetch shop",
     "Failed to update user status"}
\* a text has been handled in a turn in which such a call failed
FailedTurn(c) == HandledText(c) /\ c.loc.exc \in CallFailures

\* C29: when a durable-store or transport call fails during a turn, the
\* session's currentFlow, userType, community and userData are the same
\* after the turn as before it, so the same input can be retried.
C29_FailureKeepsState ==
    \A p \in Procs :
        LET c == procs[p]
        IN  FailedTurn(c) => SessionOf(c).currentFlow = c.tflow /\ SameUser(c)

\* C29, the case it names: a store failure during community selection
\* leaves the session in CommunitySelection with no community set.
C29_SelectionFailureKeeps ==
    \A p \in Procs :
        LET c == procs[p]
        IN  SelectsCommunity(c) /\ c.loc.exc = "Error" =>
              /\ SessionOf(c).currentFlow = "community_selection"
              /\ SessionOf(c).community = Before(c).community

\* C29, what the code keeps: a failure of the lookup that comes before the
\* turn's update (the owner's shop, in SellerMenu) leaves the session as it
\* was and is reported.
C29_LookupFailureKeeps ==
    \A p \in Procs :
        LET c == procs[p]
        IN  Handled(c, "seller_menu") /\ c.loc.exc = "Failed to fetch shop" =>
              /\ SessionOf(c).currentFlow = "seller_menu"
              /\ SameUser(c)
              /\ Templates(c) \cap {"could not start shop creation",
                                     "could not load shop"} # {}

\* the lookup of the owner's shop has failed when '1' asked for a new shop
C29_LookupWitness ==
    \E p \in Procs :
        /\ Handled(procs[p], "seller_menu")
        /\ procs[p].msg = <<"1">>
        /\ procs[p].loc.exc = "Failed to fetch shop"
        /\ "could not start shop creation" \in Templates(procs[p])


\* processIncomingMessage has settled for an inbound event
Settled(c) == c.op = "message" /\ c.pc = "done"

\* C30: for every inbound event and every failure of a collaborator (durable
\* store, shop registry, outbound transport) during its handling,
\* processIncomingMessage completes without throwing, and the sessions of
\* other address keys are unchanged.
C30_FailuresContained ==
    \A p \in Procs :
        LET c == procs[p]
        IN  Settled(c) =>
              /\ c.res.kind # "throw"
              /\ \A k \in DOMAIN sessions \ {c.key} : sessions[k] = c.hmap[k]

\* C30, what the code keeps: no step of the handling of an event of one
\* address key changes the session of another key, whatever fails.
C30_OthersUntouched ==
    \A k \in DOMAIN sessions \ {last'.key} :
        /\ sessions'[k] = sessions[k]
        /\ sessions[k] # 0 => heap'[sessions[k]] = heap[sessions[k]]
C30_Isolation == [][C30_OthersUntouched]_vars

\* an event of one key has failed while the other key has a session
C30_IsolationWitness ==
    \E p \in Procs :
        /\ Settled(procs[p])
        /\ procs[p].loc.exc # "none"
        /\ \E k \in DOMAIN sessions \ {procs[p].key} : sessions[k] # 0


(***************************************************************************)
(* Claims about persisted shops under concurrent events.                   *)
(***************************************************************************)
\* two rows of the shops table with one name in one community
SameNameInCommunity(i, j) ==
    /\ i # j
    /\ dbShops[i].name = dbShops[j].name
    /\ dbShops[i].community = dbShops[j].community

\* C31: after any interleaving of shop creations, two creators of one
\* community confirming one name at the same time included, no two persisted
\* shops of a community have the same name.  (The shops of two owners: two
\* shops of one owner are C33's.)
C31_UniqueNames ==
    \A i, j \in 1..Len(dbShops) :
        dbShops[i].owner_phone # dbShops[j].owner_phone => ~SameNameInCommunity(i, j)

\* C33: after any interleaving of inbound events, two '1' confirmations of
\* one address key in flight together included, every owner has at most one
\* persisted shop.
C33_OneShopPerOwner ==
    \A k \in ValidKeys : Cardinality(ShopsOf(k)) <= 1

(***************************************************************************)
(* Claims about the order of the session update and the messages.          *)
(***************************************************************************)
\* the event's updateSession call is made and awaits the durable store
Updating(c) ==
    /\ c.op = "message"
    /\ c.pc = "io"
    /\ Head(c.q).i \in {"sync", "updrestore"}
\* the notices of the shop-creation validations
ValidationNotices ==
    {"name too short", "name too long", "name taken", "description too short",
     "description too long", "invalid category", "back to shop name",
     "back to description"}

\* C32: in every turn that changes the session and sends a message, the
\* updateSession call of the turn is made before the turn's first message is
\* sent.  (A notice of a refused input aside: the turns that go on to the
\* update after one are those of C9, C18, C19 and C20.)
C32_UpdateBeforeSend ==
    \A p \in Procs :
        Updating(procs[p]) => Templates(procs[p]) \subseteq ValidationNotices

\* what the code keeps: outside the shop creation, no message of the turn is
\* sent before its updateSession call
C32_UpdateFirstOutsideCreation ==
    \A p \in Procs :
        Updating(procs[p]) /\ procs[p].tflow \notin ShopFlows => procs[p].sent = <<>>

C32_OutsideWitness ==
    \E p \in Procs :
        /\ Updating(procs[p])
        /\ procs[p].tflow = "community_selection"
        /\ procs[p].sent = <<>>

(***************************************************************************)
(* Claims about restorations and sweeps with other calls in flight.        *)
(***************************************************************************)
\* what a session holds beside its time stamps
Content(s) ==
    [userType |-> s.userType, currentFlow |-> s.currentFlow,
     community |-> s.community, communityVoucher |-> s.communityVoucher,
     userData |-> s.userData, shopId |-> s.shopId]

\* a restoration of key k completes on a Map that holds a session for k, put
\* there by a restoration that completed first
SecondRestoration(k) ==
    /\ last'.op = "getSession.resume"
    /\ last'.key = k
    /\ sessions[k] # 0
    /\ sessions'[k] # 0
    /\ sessions'[k] # sessions[k]

\* C34: when two operations of one key both miss in memory and restore the
\* session from the durable store at the same time, the store ends with one
\* session for the key and an update already applied to the session restored
\* first is not lost when the second restoration completes.
C34_SecondRestoreKeeps ==
    \A k \in ValidKeys :
        SecondRestoration(k) => Content(heap'[sessions'[k]]) = Content(heap[sessions[k]])

C34_RestoreRace == [][C34_SecondRestoreKeeps]_vars

\* the sweep, back from the sync of key k, removes the entry the Map holds
\* for k
SweepRemoves(k) ==
    /\ last'.op = "cleanExpiredSessions.resume"
    /\ last'.key = k
    /\ sessions[k] # 0
    /\ sessions'[k] = 0

\* C35: cleanExpiredSessions removes a session only if it is still expired
\* at the moment of removal: a session accessed or updated while the sweep
\* awaits the last sync of that session is not deleted, and the update made
\* in that window is not lost.
C35_SweepRemovesExpired ==
    \A k \in ValidKeys : SweepRemoves(k) => Expired(heap[sessions[k]], now)

C35_SweepRace == [][C35_SweepRemovesExpired]_vars

(***************************************************************************)
(* Claims about the durable row over the life of an account, under         *)
(* SpecLife.                                                               *)
(***************************************************************************)
\* caller p handles an event that found the session of its key expired, and
\* takes a step; no call has failed
ExpiredTurnSteps(p) ==
    /\ faults = 0 /\ faults' = 0
    /\ procs[p].op = "message"
    /\ procs[p].pc = "io"
    /\ procs[p].hkexp
    /\ procs[p].kind = "text"
    /\ last'.op = "message.resume"
    /\ last'.key = procs[p].key

\* C36: creating a new session for a key whose in-memory session expired
\* does not change that user's durable voucher_balance or community: a user
\* with balance b and community c before the idle period still has them
\* after their next message is processed.  (A text message: a selection
\* identifier names a community itself.)
C36_ExpiryKeepsRow ==
    \A p \in Procs :
        ExpiredTurnSteps(p) /\ procs[p].key \in DOMAIN dbUsers =>
            /\ dbUsers'[procs[p].key].voucher_balance = dbUsers[procs[p].key].voucher_balance
            /\ dbUsers'[procs[p].key].community = dbUsers[procs[p].key].community

C36_IdlePeriod == [][C36_ExpiryKeepsRow]_vars

\* caller p handles a community selection of a user whose session had a
\* community when the event arrived, and its upsert of the row answers; no
\* call has failed
SelectionSaves(p) ==
    /\ faults = 0 /\ faults' = 0
    /\ procs[p].op = "message"
    /\ procs[p].pc = "io"
    /\ Head(procs[p].q).i = "upsertUser"
    /\ procs[p].key \in DOMAIN dbUsers
    /\ Before(procs[p]).community \in Communities
    /\ last'.op = "message.resume"
    /\ last'.key = procs[p].key

\* C37: the default allocation of 100 is granted at most once per user:
\* after a user has received it, no later community selection sets their
\* durable voucher_balance to 100 again, in particular not when the balance
\* has been spent down to 0.
C37_NoSecondGrant ==
    \A p \in Procs :
        SelectionSaves(p) =>
            dbUsers'[procs[p].key].voucher_balance = dbUsers[procs[p].key].voucher_balance

C37_GrantedOnce == [][C37_NoSecondGrant]_vars

\* what the code keeps: a balance above 0 is kept by a later selection
C37_PositiveBalanceStays ==
    \A p \in Procs :
        SelectionSaves(p) /\ dbUsers[procs[p].key].voucher_balance # 0 =>
            dbUsers'[procs[p].key].voucher_balance = dbUsers[procs[p].key].voucher_balance

C37_PositiveBalanceKept == [][C37_PositiveBalanceStays]_vars

C37_KeptWitness ==
    \E p \in Procs :
        /\ procs[p].pc = "done"
        /\ procs[p].op = "message"
        /\ faults = 0
        /\ Before(procs[p]).community \in Communities
        /\ Len(procs[p].loc.user) > 0
        /\ procs[p].loc.user[1].voucher_balance = DefaultVoucherBalance
        /\ procs[p].loc.vb = DefaultVoucherBalance
        /\ dbUsers[procs[p].key].voucher_balance = DefaultVoucherBalance

(***************************************************************************)
(* Claims about the durable row against the session in memory.             *)
(***************************************************************************)
\* the session restored from row has the currentFlow, userType, community
\* and userData of session s; userData is compared as it is serialised (a
\* property set to undefined reads like a missing one)
RestoresAs(k, row, s) ==
    LET r == createSessionFromUser(k, row, now)
    IN  /\ r.currentFlow = s.currentFlow
        /\ r.userType = s.userType
        /\ r.community = s.community
        /\ r.userData = ToJson(s.userData)

\* the sync of the call that returns has succeeded
SyncSucceeded(c) == Len(c.hlog) > 0 /\ c.hlog[Len(c.hlog)].ok

\* the sweep's sync of key k has succeeded and the sweep removes the session
SweepRemovesSynced(k) ==
    /\ SweepRemoves(k)
    /\ k \in DOMAIN dbUsers
    /\ \E p \in Procs : /\ procs[p].pc = "sweep_sync"
                        /\ procs[p].key = k
                        /\ procs'[p].hlog # <<>>
                        /\ procs'[p].hlog[Len(procs'[p].hlog)].ok

\* the round trip: the row the sweep leaves restores as the session it
\* removes
C38_SweepRoundTrip ==
    \A k \in ValidKeys :
        SweepRemovesSynced(k) => RestoresAs(k, dbUsers'[k], heap[sessions[k]])

\* with no call in flight, the row of a key whose last sync succeeded
\* restores as the session in memory
C38_RowMatchesSession ==
    \A p \in Procs :
        LET c == procs[p]
        IN  ( /\ c.pc = "done" /\ c.op = "updateSession"
              /\ Quiet
              /\ SyncSucceeded(c)
              /\ c.key \in DOMAIN dbUsers
              /\ sessions[c.key] # 0 )
            => RestoresAs(c.key, dbUsers[c.key], heap[sessions[c.key]])

\* C38: a session synced to the durable store, removed from memory by a
\* sweep and then restored by getSession has the same currentFlow, userType,
\* community and userData as before the removal (a missing current_flow is
\* restored as main_menu); and when no operation is in flight for a key and
\* its last sync succeeded, the durable record's current_flow, user_type,
\* community and user_data equal the in-memory session's.
C38_SyncRoundTrip == [][C38_SweepRoundTrip]_vars /\ []C38_RowMatchesSession

\* session s names a community, or the row has none to keep
CommunityWritten(row, s) == s.community # "undefined" \/ row.community = "null"

\* what the code keeps: the round trip of a session that names a community
C38_SweepRoundTripNamed ==
    \A k \in ValidKeys :
        SweepRemovesSynced(k) /\ CommunityWritten(dbUsers'[k], heap[sessions[k]])
            => RestoresAs(k, dbUsers'[k], heap[sessions[k]])

C38_RowMatchesNamed ==
    \A p \in Procs :
        LET c == procs[p]
        IN  ( /\ c.pc = "done" /\ c.op = "updateSession"
              /\ Quiet
              /\ SyncSucceeded(c)
              /\ c.key \in DOMAIN dbUsers
              /\ sessions[c.key] # 0
              /\ CommunityWritten(dbUsers[c.key], heap[sessions[c.key]]) )
            => RestoresAs(c.key, dbUsers[c.key], heap[sessions[c.key]])

C38_NamedRoundTrip == [][C38_SweepRoundTripNamed]_vars /\ []C38_RowMatchesNamed

\* a sweep has synced and removed a session that names a community
C38_NamedWitness ==
    \E p \in Procs :
        /\ procs[p].pc = "done"
        /\ procs[p].op = "cleanExpiredSessions"
        /\ procs[p].cleaned = 1
        /\ procs[p].hlog[1].ok
        /\ sessions[procs[p].hlog[1].key] = 0
        /\ procs[p].hlog[1].key \in DOMAIN dbUsers
        /\ dbUsers[procs[p].hlog[1].key].community = "BAMEKA"
        /\ dbUsers[procs[p].hlog[1].key].current_flow = "seller_menu"

(***************************************************************************)
(* Claims about the role and the menu of a session.                        *)
(***************************************************************************)
\* the flow of session s fits its role
RoleFits(s) ==
    /\ s.currentFlow \in {"seller_menu"} \cup ShopFlows => s.userType = "seller"
    /\ s.currentFlow = "buyer_menu" => s.userType = "buyer"

\* C39: in every reachable state, currentFlow = seller_menu or a
\* shop-creation sub-state implies userType = seller, and currentFlow =
\* buyer_menu implies userType = buyer; also when a community is chosen
\* through a selection identifier (select_bameka, select_batoufam,
\* select_fondjomekwet) in a session that has no pending role.
\* (No call failing.)
C39_FlowFitsRole == faults = 0 => \A s \in Live : RoleFits(s)

\* what the code keeps: the flow fits the role of every session that has a
\* pending role, selections by identifier included
C39_FlowFitsPendingRole ==
    faults = 0 =>
        \A s \in Live : s.userData.pendingUserType \in {"seller", "buyer"} => RoleFits(s)

\* a new user has registered as a seller and chosen a community, both
\* through selection identifiers
C39_PendingWitness ==
    \E p \in Procs :
        /\ procs[p].pc = "done"
        /\ procs[p].op = "message"
        /\ procs[p].kind = "interactive"
        /\ procs[p].msg = <<"select_bameka">>
        /\ faults = 0
        /\ Before(procs[p]).userType = "null"
        /\ SessionOf(procs[p]).userType = "seller"
        /\ SessionOf(procs[p]).currentFlow = "seller_menu"

(***************************************************************************)
(* Claims about the sessions of other keys.                                *)
(***************************************************************************)
\* the steps of createSession, getSession, updateSession and deleteSession
\* and of the handling of an inbound event
KeyedSteps ==
    {"createSession", "getSession", "getSession.resume", "deleteSession",
     "updateSession", "updateSession.null", "updateSession.assign",
     "updateSession.resume", "message", "message.resume"}

\* the session of key k is as it was: the entry of the Map and every field
\* of the object
SessionUnchanged(k) ==
    /\ sessions'[k] = sessions[k]
    /\ sessions[k] # 0 =>
          /\ sessions[k] \in DOMAIN heap'
          /\ heap'[sessions[k]] = heap[sessions[k]]

\* a step of an operation on key k leaves the session of every other key
\* unchanged
C40_OtherKeysUnchanged ==
    last'.op \in KeyedSteps =>
        \A k \in DOMAIN sessions \ {last'.key} : SessionUnchanged(k)

====
